---- MODULE Spec2Model ----
(***************************************************************************)
(* State-machine model of the adaptive interview engine of doctorask:      *)
(*   - AdaptiveDiagnosticSystem        (services/medicalAIService.ts)      *)
(*   - withRetry / withTimeout and the three Oracle calls (same file)      *)
(*   - DiagnosisContainer, the session orchestrator (current variant, the  *)
(*     first component of unnamed/part_006)                                *)
(*   - DiagnosisTracker, the legacy engine (services/                      *)
(*     diagnosisTrackerService.ts), exercised stand-alone                  *)
(*                                                                         *)
(* Conventions.  A nullable value is a sequence of length <= 1 (None is    *)
(* <<>>, Some(x) is <<x>>).  A user answer is a tagged value: a number     *)
(* [t |-> "num"] or a text [t |-> "str"].  JavaScript runs a handler to    *)
(* its next pending await without interleaving, so an action of the model  *)
(* is one such run: from an event (user input, Oracle response, timer) to  *)
(* the next point where the flow waits for the Oracle or ends.             *)
(***************************************************************************)
EXTENDS Integers, Sequences, FiniteSets, TLC

None == <<>>
Some(x) == <<x>>
IsSome(o) == Len(o) > 0
Val(o) == o[1]

(***************************************************************************)
(* Bounds of the exploration (not program constants).                      *)
(***************************************************************************)
MaxTurns == 1
MaxAbandoned == 1
MaxRestarts == 1
MaxCalls == 3
MaxTrackerSymptoms == 2
MaxCandidates == 2
MaxBudgetTurns == 21
MaxEvidence == 2
MaxTokens == 4

(***************************************************************************)
(* Program constants.                                                      *)
(***************************************************************************)
MAX_RETRIES == 5
DefaultMaxQuestions == 20
EngineTargetConfidence == 85
SingleDiagnosisConfidence == 75
FallbackProbability == 50
LastDataStep == 2
InitialTargetConfidence == 70
TrackerMaxQuestions == 20
TrackerTargetConfidence == 85

PrimarySymptom == "headache"

(***************************************************************************)
(* Pure helpers of the engine.                                             *)
(***************************************************************************)
getConfidenceCategory(confidence) ==
    IF confidence < 20 THEN "very_low"
    ELSE IF confidence < 40 THEN "low"
    ELSE IF confidence < 60 THEN "moderate"
    ELSE IF confidence < 80 THEN "high"
    ELSE "very_high"

\* Fault seeding: the mapping with 'low' for the values it does not name.
mapUrgencyLevelLowDefault(urgency) ==
    CASE urgency = "emergency" -> "emergency"
      [] urgency = "urgent"    -> "high"
      [] urgency = "routine"   -> "moderate"
      [] urgency = "self_care" -> "low"
      [] OTHER                 -> "low"

mapUrgencyLevel(urgency) ==
    CASE urgency = "emergency" -> "emergency"
      [] urgency = "urgent"    -> "high"
      [] urgency = "routine"   -> "moderate"
      [] urgency = "self_care" -> "low"
      [] OTHER                 -> "moderate"

\* Array.prototype.sort((a, b) => b.confidence - a.confidence): a stable
\* sort, descending by confidence.  InsertDesc puts x after every element
\* that is not smaller, so equal elements keep their input order.
RECURSIVE InsertDesc(_, _)
InsertDesc(x, s) ==
    IF s = <<>> THEN <<x>>
    ELSE IF Head(s).confidence >= x.confidence
         THEN <<Head(s)>> \o InsertDesc(x, Tail(s))
         ELSE <<x>> \o s

\* Fault seeding: the list left in the order the Oracle gave it.
KeepOrder(s) == s

RECURSIVE SortDesc(_)
SortDesc(s) ==
    IF s = <<>> THEN <<>>
    ELSE InsertDesc(s[Len(s)], SortDesc(SubSeq(s, 1, Len(s) - 1)))

\* aiDiagnoses.map(...) of updateWithAIDiagnoses: one candidate per diagnosis.
RECURSIVE MapDiagnoses(_)
MapDiagnoses(aiDiagnoses) ==
    IF aiDiagnoses = <<>> THEN <<>>
    ELSE <<[name       |-> Head(aiDiagnoses).condition,
            confidence |-> Head(aiDiagnoses).probability,
            likelihood |-> getConfidenceCategory(Head(aiDiagnoses).probability),
            urgency    |-> mapUrgencyLevel(Head(aiDiagnoses).urgencyLevel)]>>
         \o MapDiagnoses(Tail(aiDiagnoses))

\* possibleDiagnoses[0]?.confidence || 0
TopConfidence(possibleDiagnoses) ==
    IF possibleDiagnoses = <<>> THEN 0 ELSE possibleDiagnoses[1].confidence

(***************************************************************************)
(* AdaptiveDiagnosticSystem.  The object is a record: the Evidence list of *)
(* its patientProfile (symptoms), its candidate list (possibleDiagnoses,   *)
(* the same array as diagnosticProgress.possibleDiagnoses) and the scalar  *)
(* fields of diagnosticProgress.                                           *)
(***************************************************************************)
NewAdaptiveDiagnosticSystem ==
    [symptoms             |-> <<>>,
     possibleDiagnoses    |-> <<>>,
     totalQuestionsAsked  |-> 0,
     maxQuestions         |-> DefaultMaxQuestions,
     currentConfidence    |-> 0,
     targetConfidence     |-> EngineTargetConfidence,
     nextQuestionStrategy |-> "discriminative"]

hasRedFlagSymptoms(sys) ==
    \/ \E i \in 1..Len(sys.possibleDiagnoses) : sys.possibleDiagnoses[i].urgency = "emergency"
    \/ \E i \in 1..Len(sys.symptoms) : sys.symptoms[i].severity >= 8

\* Fault seeding: the strategy rules with the red-flag rule tried before the
\* confirmation rule.
selectStrategyRedFlagFirst(sys) ==
    LET pd == sys.possibleDiagnoses IN
    IF Len(pd) = 0 THEN "completeness"
    ELSE IF hasRedFlagSymptoms(sys) THEN "red_flag_check"
    ELSE IF pd[1].confidence > 70
            /\ (Len(pd) < 2 \/ pd[1].confidence - pd[2].confidence > 20)
         THEN "confirmation"
    ELSE IF Len(pd) >= 2 /\ pd[1].confidence - pd[2].confidence < 15
         THEN "discriminative"
    ELSE "completeness"

selectStrategy(sys) ==
    LET pd == sys.possibleDiagnoses IN
    IF Len(pd) = 0 THEN "completeness"
    ELSE IF pd[1].confidence > 70
            /\ (Len(pd) < 2 \/ pd[1].confidence - pd[2].confidence > 20)
         THEN "confirmation"
    ELSE IF Len(pd) >= 2 /\ pd[1].confidence - pd[2].confidence < 15
         THEN "discriminative"
    ELSE IF hasRedFlagSymptoms(sys) THEN "red_flag_check"
    ELSE "completeness"

updateQuestionStrategy(sys) ==
    [sys EXCEPT !.nextQuestionStrategy = selectStrategy(sys)]

\* A reason string is the rule's fixed text, the diagnosis name the template
\* embeds ("" when it embeds none) and the numbers it embeds, in order.
\* `reason` is None when the result carries no reason.
StopReason(text, name, nums) == [text |-> text, name |-> name, nums |-> nums]

\* Fault seeding: shouldStop with a strict comparison in its first rule.
shouldStopStrict(sys) ==
    IF sys.currentConfidence > sys.targetConfidence
    THEN [shouldStop |-> TRUE,
          reason |-> Some(StopReason("Target confidence reached", "",
                                     <<sys.currentConfidence, sys.targetConfidence>>))]
    ELSE IF sys.totalQuestionsAsked >= sys.maxQuestions
    THEN [shouldStop |-> TRUE,
          reason |-> Some(StopReason("Maximum questions reached", "",
                                     <<sys.totalQuestionsAsked, sys.maxQuestions>>))]
    ELSE IF Len(sys.possibleDiagnoses) = 1 /\ sys.currentConfidence >= SingleDiagnosisConfidence
    THEN [shouldStop |-> TRUE,
          reason |-> Some(StopReason("Single high-confidence diagnosis",
                                     sys.possibleDiagnoses[1].name,
                                     <<sys.currentConfidence>>))]
    ELSE [shouldStop |-> FALSE, reason |-> None]

shouldStop(sys) ==
    IF sys.currentConfidence >= sys.targetConfidence
    THEN [shouldStop |-> TRUE,
          reason |-> Some(StopReason("Target confidence reached", "",
                                     <<sys.currentConfidence, sys.targetConfidence>>))]
    ELSE IF sys.totalQuestionsAsked >= sys.maxQuestions
    THEN [shouldStop |-> TRUE,
          reason |-> Some(StopReason("Maximum questions reached", "",
                                     <<sys.totalQuestionsAsked, sys.maxQuestions>>))]
    ELSE IF Len(sys.possibleDiagnoses) = 1 /\ sys.currentConfidence >= SingleDiagnosisConfidence
    THEN [shouldStop |-> TRUE,
          reason |-> Some(StopReason("Single high-confidence diagnosis",
                                     sys.possibleDiagnoses[1].name,
                                     <<sys.currentConfidence>>))]
    ELSE [shouldStop |-> FALSE, reason |-> None]

\* Fault seeding: the new record put in front of the list.
updateDiagnosisPrepending(sys, newSymptomDetail) ==
    [sys EXCEPT !.symptoms = <<newSymptomDetail>> \o @,
                !.totalQuestionsAsked = @ + 1]

updateDiagnosis(sys, newSymptomDetail) ==
    [sys EXCEPT !.symptoms = Append(@, newSymptomDetail),
                !.totalQuestionsAsked = @ + 1]

\* Fault seeding: an update that merges the new candidates into the list
\* held.
updateWithAIDiagnosesMerging(sys, aiDiagnoses) ==
    LET newDiagnoses == SortDesc(sys.possibleDiagnoses \o MapDiagnoses(aiDiagnoses)) IN
    [sys EXCEPT !.possibleDiagnoses = newDiagnoses,
                !.totalQuestionsAsked = @ + 1,
                !.currentConfidence = TopConfidence(newDiagnoses)]

updateWithAIDiagnoses(sys, aiDiagnoses) ==
    LET newDiagnoses == SortDesc(MapDiagnoses(aiDiagnoses)) IN
    updateQuestionStrategy(
        [sys EXCEPT !.possibleDiagnoses = newDiagnoses,
                    !.totalQuestionsAsked = @ + 1,
                    !.currentConfidence = TopConfidence(newDiagnoses)])

(***************************************************************************)
(* Answers and the answer extractor.                                       *)
(***************************************************************************)
Num(n) == [t |-> "num", n |-> n, s |-> ""]
Str(s) == [t |-> "str", n |-> 0, s |-> s]

\* JavaScript truthiness of an answer: 0 and '' are falsy.
Truthy(answer) == IF answer.t = "num" THEN answer.n # 0 ELSE answer.s # ""

\* The texts the model uses, with what String.prototype.includes and
\* parseInt compute on them.
TextFeverCough == "I also have a cough and a fever"
TextNothing    == "nothing else"
TextSeven      == "7"
TextMinusFour  == "-4"
TextZero       == "0"

commonSymptoms ==
    <<"headache", "fever", "cough", "nausea", "vomiting", "diarrhea",
      "chest pain", "abdominal pain", "back pain", "fatigue", "dizziness",
      "shortness of breath", "sore throat", "runny nose", "sneezing",
      "muscle aches", "joint pain", "rash", "itching", "swelling",
      "urinary frequency", "burning urination", "constipation", "bloating">>

Includes(text, keyword) ==
    \/ text = TextFeverCough /\ keyword \in {"cough", "fever"}
    \/ text = "What is the severity of your headache?" /\ keyword \in {"severity", "headache"}
    \/ text = "How long have you had it?" /\ keyword \in {"how long"}
    \/ text = "Where is the pain?" /\ keyword \in {"where", "pain"}
    \/ text = "Any other symptoms?" /\ keyword \in {"symptoms"}
    \/ text = "chest_pain" /\ keyword \in {"pain", "chest_pain"}
    \/ text = "abdominal_pain" /\ keyword \in {"pain", "abdominal_pain"}
    \/ text = "headache" /\ keyword \in {"headache"}
    \/ text = "fever" /\ keyword \in {"fever"}

\* parseInt(text): an integer, or NaN (None).
parseInt(text) ==
    IF text = TextSeven THEN Some(7)
    ELSE IF text = TextMinusFour THEN Some(-4)
    ELSE IF text = TextZero THEN Some(0)
    ELSE None

\* typeof answer === 'number' ? answer : parseInt(answer) || 5
SeverityOf(answer) ==
    IF answer.t = "num" THEN answer.n
    ELSE IF IsSome(parseInt(answer.s)) /\ Val(parseInt(answer.s)) # 0
         THEN Val(parseInt(answer.s)) ELSE 5

\* String(answer) of a number has no vocabulary keyword in it.
extractSymptomsFromAnswer(answer) ==
    IF answer.t = "num" THEN <<>>
    ELSE SelectSeq(commonSymptoms, LAMBDA k : Includes(answer.s, k))

SymptomDetail(name, severity, duration, location, associated) ==
    [name |-> name, severity |-> severity, duration |-> duration,
     onset |-> "gradual", location |-> location,
     associatedSymptoms |-> associated]

TextOf(answer) == IF answer.t = "str" THEN answer.s ELSE ""

\* The classification by the text of the last asked question, shared by the
\* two extractors.
ByLastQuestion(answer, lastQuestion, primarySymptom, otherwise) ==
    IF Includes(lastQuestion, "severity") \/ Includes(lastQuestion, "scale")
       \/ Includes(lastQuestion, "1-10")
    THEN Some(SymptomDetail(primarySymptom, SeverityOf(answer), "", "", <<>>))
    ELSE IF Includes(lastQuestion, "how long") \/ Includes(lastQuestion, "duration")
    THEN Some(SymptomDetail(primarySymptom, 0, TextOf(answer), "", <<>>))
    ELSE IF Includes(lastQuestion, "where") \/ Includes(lastQuestion, "location")
    THEN Some(SymptomDetail(primarySymptom, 0, "", TextOf(answer), <<>>))
    ELSE otherwise

AssociatedDefault(answer, primarySymptom) ==
    Some(SymptomDetail(primarySymptom, 0, "", "",
                       IF answer.t = "str" THEN <<answer.s>> ELSE <<>>))

\* medicalAIService.ts convertAnswerToSymptomDetail; `answer` is None when
\* the caller passed undefined.
convertAnswerToSymptomDetail(answer, questionHistory, primarySymptom) ==
    IF ~IsSome(answer) \/ ~Truthy(Val(answer)) \/ Len(questionHistory) = 0 THEN None
    ELSE LET a == Val(answer)
             found == extractSymptomsFromAnswer(a)
         IN ByLastQuestion(a, questionHistory[Len(questionHistory)], primarySymptom,
                IF Len(found) > 0
                THEN Some(SymptomDetail(found[1], 5, "", "", <<>>))
                ELSE AssociatedDefault(a, primarySymptom))

\* DiagnosisContainer's own convertAnswerToSymptomDetail (no keyword scan).
containerConvertAnswer(answer, questionHistory, primarySymptom) ==
    IF ~IsSome(answer) \/ ~Truthy(Val(answer)) \/ Len(questionHistory) = 0 THEN None
    ELSE ByLastQuestion(Val(answer), questionHistory[Len(questionHistory)], primarySymptom,
                        AssociatedDefault(Val(answer), primarySymptom))

\* What a caller can pass as the answer: undefined, a number of the range
\* input, or the text of the text area.
AnswerInputs ==
    {None, Some(Num(0)), Some(Num(9)), Some(Str("")), Some(Str(TextFeverCough)),
     Some(Str(TextNothing)), Some(Str(TextSeven)), Some(Str(TextMinusFour)),
     Some(Str(TextZero))}

HistoryInputs ==
    {<<>>,
     <<"What is the severity of your headache?">>,
     <<"How long have you had it?">>,
     <<"Where is the pain?">>,
     <<"Any other symptoms?">>,
     <<"What is the severity of your headache?", "Any other symptoms?">>}

(***************************************************************************)
(* The Oracle: what a request can come back with.                          *)
(***************************************************************************)
Diagnosis(condition, probability, urgencyLevel) ==
    [condition |-> condition, probability |-> probability, urgencyLevel |-> urgencyLevel]

DiagMigraine  == Diagnosis("Migraine", 90, "emergency")
DiagTension   == Diagnosis("Tension headache", 60, "routine")
DiagSinusitis == Diagnosis("Sinusitis", 40, "urgent")

\* A diagnosis response: no diagnosis, one, or two, ranked or not (the Oracle
\* is asked for a ranked list but nothing makes it return one).
DiagLists ==
    {<<>>, <<DiagMigraine>>, <<DiagTension>>,
     <<DiagSinusitis, DiagTension>>, <<DiagTension, DiagMigraine>>}

\* Diagnosis responses with the urgency levels that DiagLists has not: the
\* fourth level of the Oracle's vocabulary, a word outside it, and none (the
\* urgencyLevel read from such an item is undefined).
UndefinedUrgency == "(undefined)"

UrgencyLists ==
    {<<Diagnosis("Common cold", 30, "self_care")>>,
     <<Diagnosis("Common cold", 30, "critical")>>,
     <<Diagnosis("Sinusitis", 40, "urgent"), Diagnosis("Common cold", 30, UndefinedUrgency)>>}

Question(text, type) == [question |-> text, type |-> type]

QuestionSeverity == Question("What is the severity of your headache?", "scale")
QuestionOther    == Question("Any other symptoms?", "text")

\* A next-question response: the parsed JSON object, with or without a
\* question, and with its own shouldStop vote.
QuestionResponses ==
    {[question |-> Some(QuestionSeverity), shouldStop |-> FALSE],
     [question |-> Some(QuestionOther), shouldStop |-> FALSE],
     [question |-> Some(QuestionOther), shouldStop |-> TRUE],
     [question |-> None, shouldStop |-> TRUE]}

\* A guidance response is whatever JSON.parse returns: an object, or null.
GuidanceObject == [nextSteps |-> "oracle"]
FallbackGuidance == [nextSteps |-> "fallback"]
GuidanceResponses == {Some(GuidanceObject), None}

\* How one attempt of a request can fail: the call rejects (transient), the
\* response is rejected by the parser of the call (malformed), the call is
\* refused (auth: status 401 or code invalid_api_key), or the timer of
\* withTimeout wins the race (timeout).
FailureKinds == {"transient", "malformed", "auth", "timeout"}

\* What the user can enter on the card of a question (the range input of a
\* scale question gives numbers 0..10, a text area gives text).
AnswersTo(question) ==
    IF question.type = "scale" THEN {Num(0), Num(9)}
    ELSE {Str(TextFeverCough)}

(***************************************************************************)
(* DiagnosisTracker (diagnosisTrackerService.ts), the engine of the legacy *)
(* container.  The object is a record like the engine's, with its          *)
(* questionCounter.                                                        *)
(***************************************************************************)
trackerHasRedFlagSymptoms(t) ==
    \/ \E i \in 1..Len(t.possibleDiagnoses) : t.possibleDiagnoses[i].urgency = "emergency"
    \/ \E i \in 1..Len(t.symptoms) : t.symptoms[i].severity >= 8

trackerSelectStrategy(t) ==
    LET pd == t.possibleDiagnoses IN
    IF Len(pd) = 0 THEN "completeness"
    ELSE IF pd[1].confidence > 70
            /\ (Len(pd) < 2 \/ pd[1].confidence - pd[2].confidence > 20)
         THEN "confirmation"
    ELSE IF Len(pd) >= 2 /\ pd[1].confidence - pd[2].confidence < 15
         THEN "discriminative"
    ELSE IF trackerHasRedFlagSymptoms(t) THEN "red_flag_check"
    ELSE "completeness"

\* Fault seeding: the counter of the Progress taken from the length of the
\* candidate list.
updateDiagnosticProgressCountingCandidates(t) ==
    LET t1 == [t EXCEPT !.totalQuestionsAsked = Len(t.possibleDiagnoses),
                        !.currentConfidence = TopConfidence(t.possibleDiagnoses)]
    IN [t1 EXCEPT !.nextQuestionStrategy = trackerSelectStrategy(t1)]

updateDiagnosticProgress(t) ==
    LET t1 == [t EXCEPT !.totalQuestionsAsked = t.questionCounter,
                        !.currentConfidence = TopConfidence(t.possibleDiagnoses)]
    IN [t1 EXCEPT !.nextQuestionStrategy = trackerSelectStrategy(t1)]

\* constructor, with the initializeDiagnoses it ends with.
NewDiagnosisTracker ==
    updateDiagnosticProgress(
        [symptoms             |-> <<>>,
         possibleDiagnoses    |-> <<>>,
         questionCounter      |-> 0,
         totalQuestionsAsked  |-> 0,
         maxQuestions         |-> TrackerMaxQuestions,
         currentConfidence    |-> 0,
         targetConfidence     |-> TrackerTargetConfidence,
         nextQuestionStrategy |-> "discriminative"])

updateWithNewSymptom(t, symptomDetail) ==
    updateDiagnosticProgress(
        [t EXCEPT !.symptoms = Append(@, symptomDetail),
                  !.questionCounter = @ + 1])

\* The map of lines 118-127 builds the same candidate fields as the engine's.
trackerUpdateWithAIDiagnoses(t, aiDiagnoses) ==
    updateDiagnosticProgress(
        [t EXCEPT !.possibleDiagnoses = SortDesc(MapDiagnoses(aiDiagnoses))])

HasSymptomNamed(symptoms, name) ==
    \E i \in 1..Len(symptoms) : symptoms[i].name = name

inferTopDiagnosis(symptoms) ==
    IF HasSymptomNamed(symptoms, "chest_pain") \/ HasSymptomNamed(symptoms, "shortness_of_breath")
    THEN "Cardiac condition"
    ELSE IF HasSymptomNamed(symptoms, "headache") /\ HasSymptomNamed(symptoms, "nausea")
    THEN "Migraine"
    ELSE IF HasSymptomNamed(symptoms, "cough") /\ HasSymptomNamed(symptoms, "fever")
    THEN "Respiratory infection"
    ELSE IF HasSymptomNamed(symptoms, "abdominal_pain") /\ HasSymptomNamed(symptoms, "nausea")
    THEN "Gastrointestinal condition"
    ELSE IF HasSymptomNamed(symptoms, "urinary_frequency") \/ HasSymptomNamed(symptoms, "dysuria")
    THEN "Urinary tract condition"
    ELSE "General medical condition"

RECURSIVE SumSeverity(_)
SumSeverity(symptoms) ==
    IF symptoms = <<>> THEN 0 ELSE Head(symptoms).severity + SumSeverity(Tail(symptoms))

\* Math.min(85, symptomCount * 10 + avgSeverity * 5), avgSeverity being the
\* sum over the count.  The severities of TrackerSymptoms make the quotient
\* a whole number for every count the exploration reaches.
HeuristicConfidence(symptoms) ==
    IF Len(symptoms) = 0 THEN 0
    ELSE LET c == Len(symptoms) * 10 + (SumSeverity(symptoms) * 5) \div Len(symptoms)
         IN IF c < 85 THEN c ELSE 85

\* getRealTimeConfidenceAnalysis: the tracker after the call.  (Nothing in
\* its try block throws.)
getRealTimeConfidenceAnalysis(t) ==
    LET confidence == HeuristicConfidence(t.symptoms)
        topDiagnosis == inferTopDiagnosis(t.symptoms)
        found == \E i \in 1..Len(t.possibleDiagnoses) :
                     t.possibleDiagnoses[i].name = topDiagnosis
    IN [t EXCEPT !.currentConfidence = confidence,
                 !.possibleDiagnoses =
                     IF found THEN @
                     ELSE SortDesc(Append(@, [name       |-> topDiagnosis,
                                              confidence |-> confidence,
                                              likelihood |-> getConfidenceCategory(confidence),
                                              urgency    |-> "moderate"]))]

\* shouldStopQuestioning: the three rules of the engine's shouldStop, then a
\* fourth on the urgency of the candidates.
shouldStopQuestioning(t) ==
    IF t.currentConfidence >= t.targetConfidence THEN TRUE
    ELSE IF t.totalQuestionsAsked >= t.maxQuestions THEN TRUE
    ELSE IF Len(t.possibleDiagnoses) = 1 /\ t.currentConfidence >= SingleDiagnosisConfidence THEN TRUE
    ELSE IF \E i \in 1..Len(t.possibleDiagnoses) : t.possibleDiagnoses[i].urgency = "emergency" THEN TRUE
    ELSE FALSE

\* The Evidence given to a stand-alone tracker.
TrackerSymptoms ==
    {SymptomDetail("headache", 2, "", "", <<>>),
     SymptomDetail("nausea", 8, "", "", <<>>)}

(***************************************************************************)
(* Progress values for the functions of the engine taken on their own:     *)
(* candidate lists as the engine keeps them (sorted, currentConfidence the *)
(* top confidence), around the thresholds of the rules.                    *)
(***************************************************************************)
CandidateConfidences == {55, 70, 71, 76, 91, 96}

Candidate(confidence, urgency) ==
    [name       |-> IF urgency = "emergency" THEN "Migraine" ELSE "Tension headache",
     confidence |-> confidence,
     likelihood |-> getConfidenceCategory(confidence),
     urgency    |-> urgency]

Candidates ==
    {Candidate(c, u) : c \in CandidateConfidences, u \in {"emergency", "moderate"}}

IsSortedDesc(l) ==
    \A i \in 1..(Len(l) - 1) : l[i].confidence >= l[i + 1].confidence

CandidateLists ==
    {l \in UNION {[1..n -> Candidates] : n \in 0..MaxCandidates} : IsSortedDesc(l)}

EvidenceLists ==
    {<<>>,
     <<SymptomDetail(PrimarySymptom, 5, "", "", <<>>)>>,
     <<SymptomDetail(PrimarySymptom, 8, "", "", <<>>)>>}

\* targetConfidence is 85 in an engine as constructed and 70 in the Progress
\* of createInitialDiagnosticProgress.
ProgressValues ==
    {[symptoms             |-> e,
      possibleDiagnoses    |-> l,
      totalQuestionsAsked  |-> q,
      maxQuestions         |-> DefaultMaxQuestions,
      currentConfidence    |-> TopConfidence(l),
      targetConfidence     |-> tc,
      nextQuestionStrategy |-> "discriminative"] :
        e \in EvidenceLists, l \in CandidateLists,
        q \in {0, DefaultMaxQuestions - 1, DefaultMaxQuestions},
        tc \in {InitialTargetConfidence, EngineTargetConfidence}}

(***************************************************************************)
(* State.                                                                  *)
(***************************************************************************)
VARIABLES
    \* React state of DiagnosisContainer
    step, dataStep, isLoading, error, currentQuestion, questionCount,
    questionHistory, questionAnswers, diagnoses, guidance,
    adaptiveSystem, diagnosticProgress,
    \* the running asynchronous flow: its position and the values its
    \* closure holds
    pc, flowKind, staleSystem, lastAnswer, historySnapshot,
    aiConfidence, aiTopDiagnosis,
    \* withRetry / withTimeout of the request the flow waits for
    attempt, phase, abandoned,
    \* bookkeeping of the exploration
    restarts, turnAnalysis,
    \* whether a request of the running flow has ended on an authentication
    \* error (the error object itself is dropped by every catch block)
    authFailed,
    \* the classes exercised on their own, through their public operations:
    \* a stand-alone DiagnosisTracker, the result of the last shouldStop()
    \* call, the operation called last and the number of calls made
    tracker, stopResult, lastCall, calls,
    \* the list passed to updateWithAIDiagnoses when that is the operation
    \* called last, None otherwise
    lastArg,
    \* withRetry exercised on its own: the error caught last (lastError of
    \* withRetry) and how the invocation ended
    lastError, retryOutcome,
    \* the answer extractor exercised on its own: the answer and the question
    \* history it is given, and what the call returned (None before any call,
    \* else Some of the value returned, itself None for null)
    answerArg, historyArg, extracted,
    \* analyzeSymptomProfile exercised on its own: the primary symptom of the
    \* engine's patient profile, the Evidence list passed, and the result
    \* (None before the call)
    profileArg, symptomDetailsArg, analysis,
    \* what DiagnosisTracker.getSymptomCompleteness returned (None before the
    \* call)
    trackerCompleteness,
    \* validateAndCleanQuestion exercised on its own: the question text (a
    \* sequence of tokens) and the language it is given, and the text
    \* returned (None before the call)
    questionArg, languageArg, cleaned,
    \* the item of localStorage under STORAGE_KEY: None when absent, else the
    \* snapshot that JSON.parse gives back for the stored text
    storage

uiVars == <<step, dataStep, isLoading, error, currentQuestion, questionCount,
            questionHistory, questionAnswers, diagnoses, guidance, diagnosticProgress,
            storage>>
flowVars == <<pc, flowKind, staleSystem, lastAnswer, historySnapshot,
              aiConfidence, aiTopDiagnosis, authFailed>>
netVars == <<attempt, phase, abandoned>>
callVars == <<tracker, stopResult, lastCall, calls, lastArg>>
retryVars == <<lastError, retryOutcome>>
extractVars == <<answerArg, historyArg, extracted>>
analysisVars == <<profileArg, symptomDetailsArg, analysis, trackerCompleteness>>
cleanVars == <<questionArg, languageArg, cleaned>>
vars == <<uiVars, adaptiveSystem, flowVars, netVars, restarts, turnAnalysis, callVars,
          retryVars, extractVars, analysisVars, cleanVars>>

(***************************************************************************)
(* The save effect of DiagnosisContainer.  A field of stateToSave is None  *)
(* where the object has undefined and Some(v) where it has the value v     *)
(* (null included).                                                        *)
(***************************************************************************)
\* Fault seeding: a snapshot that carries the engine instance.
stateToSaveWithSystem ==
    [step               |-> Some(step),
     dataStep           |-> Some(dataStep),
     currentQuestion    |-> Some(currentQuestion),
     questionCount      |-> Some(questionCount),
     questionHistory    |-> Some(questionHistory),
     questionAnswers    |-> Some(questionAnswers),
     diagnoses          |-> Some(diagnoses),
     guidance           |-> Some(guidance),
     adaptiveSystem     |-> Some(adaptiveSystem),
     diagnosticProgress |-> diagnosticProgress]

stateToSave ==
    [step               |-> Some(step),
     dataStep           |-> Some(dataStep),
     currentQuestion    |-> Some(currentQuestion),
     questionCount      |-> Some(questionCount),
     questionHistory    |-> Some(questionHistory),
     questionAnswers    |-> Some(questionAnswers),
     diagnoses          |-> Some(diagnoses),
     guidance           |-> Some(guidance),
     adaptiveSystem     |-> None,
     diagnosticProgress |-> diagnosticProgress]

\* JSON.parse(JSON.stringify(o)) of an object of plain data: a property
\* whose value is undefined is left out, every other property is kept.
JSONStringify(o) ==
    [k \in {f \in DOMAIN o : IsSome(o[f])} |-> Val(o[k])]

\* The dependency list of the save effect.
saveDeps ==
    <<step, dataStep, currentQuestion, questionCount, questionHistory,
      questionAnswers, diagnoses, guidance, diagnosticProgress>>

\* The save effect after the render that follows a handler: it runs when a
\* dependency has changed.
saveEffect ==
    storage' = IF saveDeps' = saveDeps THEN storage
               ELSE Some(JSONStringify(stateToSave'))

\* The container as mounted, before any event; no flow running.  The load
\* effect has removed the item and found none, the save effect has written
\* the state of the first render.
ContainerInit ==
    /\ step = "welcome"
    /\ dataStep = 0
    /\ isLoading = FALSE
    /\ error = None
    /\ currentQuestion = None
    /\ questionCount = 0
    /\ questionHistory = <<>>
    /\ questionAnswers = <<>>
    /\ diagnoses = <<>>
    /\ guidance = None
    /\ diagnosticProgress = None
    /\ pc = "idle"
    /\ flowKind = "none"
    /\ staleSystem = None
    /\ lastAnswer = None
    /\ historySnapshot = <<>>
    /\ aiConfidence = 0
    /\ aiTopDiagnosis = ""
    /\ attempt = 0
    /\ phase = "none"
    /\ abandoned = 0
    /\ restarts = 0
    /\ turnAnalysis = "none"
    /\ authFailed = FALSE

Mounted ==
    storage = Some(JSONStringify(stateToSave))

NoCalls ==
    /\ tracker = None
    /\ stopResult = None
    /\ lastCall = "none"
    /\ calls = 0
    /\ lastArg = None
    /\ lastError = None
    /\ retryOutcome = "none"

NoExtractorCall ==
    /\ answerArg = None
    /\ historyArg = <<>>
    /\ extracted = None

NoAnalysisCall ==
    /\ profileArg = PrimarySymptom
    /\ symptomDetailsArg = <<>>
    /\ analysis = None
    /\ trackerCompleteness = None

NoCleanCall ==
    /\ questionArg = <<>>
    /\ languageArg = "en"
    /\ cleaned = None

Init ==
    /\ ContainerInit
    /\ adaptiveSystem = None
    /\ Mounted
    /\ NoCalls
    /\ NoExtractorCall
    /\ NoAnalysisCall
    /\ NoCleanCall

(***************************************************************************)
(* What the component renders (the render function of DiagnosisContainer). *)
(* Only the card of a view accepts the user's input for that view.         *)
(***************************************************************************)
\* Fault seeding: a render that does not look at isLoading.
ViewIgnoringLoading ==
    IF IsSome(error) THEN "error"
    ELSE CASE step = "welcome" -> "welcome"
           [] step = "symptom-collection" -> "symptom-collection"
           [] step = "dynamic-questions" ->
                 IF ~IsSome(currentQuestion) THEN "analyzing" ELSE "question"
           [] step = "results" ->
                 IF ~IsSome(guidance) THEN "finalizing" ELSE "results"

View ==
    IF IsSome(error) THEN "error"
    ELSE IF isLoading THEN "loading"
    ELSE CASE step = "welcome" -> "welcome"
           [] step = "symptom-collection" -> "symptom-collection"
           [] step = "dynamic-questions" ->
                 IF ~IsSome(currentQuestion) THEN "analyzing" ELSE "question"
           [] step = "results" ->
                 IF ~IsSome(guidance) THEN "finalizing" ELSE "results"

\* The plain copy of the engine's Progress that the container keeps in state.
ProgressOf(sys) ==
    [currentConfidence    |-> sys.currentConfidence,
     targetConfidence     |-> sys.targetConfidence,
     totalQuestionsAsked  |-> sys.totalQuestionsAsked,
     maxQuestions         |-> sys.maxQuestions,
     nextQuestionStrategy |-> sys.nextQuestionStrategy,
     possibleDiagnoses    |-> sys.possibleDiagnoses]

\* createInitialDiagnosticProgress() without overrides (maxQuestions: 20, as
\* in the engines); the Progress of this model carries no ruledOutConditions
\* and no informationGain.
createInitialDiagnosticProgress ==
    [currentConfidence    |-> 0,
     targetConfidence     |-> InitialTargetConfidence,
     totalQuestionsAsked  |-> 0,
     maxQuestions         |-> DefaultMaxQuestions,
     nextQuestionStrategy |-> "discriminative",
     possibleDiagnoses    |-> <<>>]

\* The updater passed to setDiagnosticProgress when a next question is shown.
PreservedProgress(prev, sys, symptomDetail, aiConf, aiTop) ==
    LET preservedDiagnoses == IF IsSome(prev) THEN Val(prev).possibleDiagnoses ELSE <<>>
        baseDiagnoses == IF Len(preservedDiagnoses) > 0 THEN preservedDiagnoses
                         ELSE sys.possibleDiagnoses
        confidenceToUse == IF sys.currentConfidence # 0 THEN sys.currentConfidence
                           ELSE IF IsSome(symptomDetail) THEN aiConf ELSE 0
        mapped == [i \in 1..Len(baseDiagnoses) |->
                     IF i # 1 THEN baseDiagnoses[i]
                     ELSE [baseDiagnoses[i] EXCEPT
                             !.name = IF aiTop # "" THEN aiTop ELSE @,
                             !.confidence = confidenceToUse]]
    IN [ProgressOf(sys) EXCEPT !.currentConfidence = confidenceToUse,
                               !.possibleDiagnoses = SortDesc(mapped)]

(***************************************************************************)
(* getRealTimeAIAnalysis / updateWithRealTimeAnalysis.  `outcome` is what  *)
(* analyzeSymptoms (under withRetry) ended with: [ok |-> TRUE, diagnoses]  *)
(* or a thrown error [ok |-> FALSE].                                       *)
(***************************************************************************)
Returned(diagnosesList) == [ok |-> TRUE, diagnoses |-> diagnosesList]
Threw == [ok |-> FALSE, diagnoses |-> <<>>]

\* Fault seeding: getRealTimeAIAnalysis without its catch (the error of
\* analyzeSymptoms leaves it).
getRealTimeAIAnalysisRethrows(outcome) ==
    IF outcome.ok
    THEN [threw |-> FALSE, diagnoses |-> outcome.diagnoses,
          confidence |-> TopConfidence(SortDesc(MapDiagnoses(outcome.diagnoses)))]
    ELSE [threw |-> TRUE, diagnoses |-> <<>>, confidence |-> 0]

getRealTimeAIAnalysis(outcome) ==
    IF outcome.ok
    THEN [threw |-> FALSE, diagnoses |-> outcome.diagnoses,
          confidence |-> TopConfidence(SortDesc(MapDiagnoses(outcome.diagnoses)))]
    ELSE [threw |-> FALSE, diagnoses |-> <<>>, confidence |-> 0]

\* Returns the engine after the call and whether an exception left the call.
updateWithRealTimeAnalysis(sys, outcome) ==
    LET aiAnalysis == getRealTimeAIAnalysis(outcome) IN
    IF aiAnalysis.threw THEN [threw |-> FALSE, sys |-> sys]
    ELSE [threw |-> FALSE, sys |-> updateWithAIDiagnoses(sys, aiAnalysis.diagnoses)]

\* Fault seeding: generateNextQuestionWithAdaptiveSystem without its stop
\* check.
adaptiveStepWithoutStopCheck(sys, answer, hasAnswers, history) ==
    LET symptomDetail ==
            IF IsSome(answer) /\ Truthy(Val(answer)) /\ hasAnswers
            THEN convertAnswerToSymptomDetail(answer, history, PrimarySymptom)
            ELSE None
        sys2 == IF IsSome(symptomDetail) THEN updateDiagnosis(sys, Val(symptomDetail)) ELSE sys
    IN [sys |-> sys2, stopCheck |-> [shouldStop |-> FALSE, reason |-> None]]

\* The synchronous part of generateNextQuestionWithAdaptiveSystem, up to the
\* stop check: the engine after it and the result of shouldStop.
adaptiveStep(sys, answer, hasAnswers, history) ==
    LET symptomDetail ==
            IF IsSome(answer) /\ Truthy(Val(answer)) /\ hasAnswers
            THEN convertAnswerToSymptomDetail(answer, history, PrimarySymptom)
            ELSE None
        sys2 == IF IsSome(symptomDetail) THEN updateDiagnosis(sys, Val(symptomDetail)) ELSE sys
    IN [sys |-> sys2, stopCheck |-> shouldStop(sys2)]

(***************************************************************************)
(* withRetry / withTimeout.                                                *)
(***************************************************************************)
\* withRetry keeps the error of the failed attempt in lastError and reads it
\* only to build the message of the Error it throws after the loop; no step
\* of the session branches on it, so it is not a variable here.
\* Fault seeding: withRetry without the break on an authentication error.
IsLastAttemptRetryingAuth(kind) == attempt >= MAX_RETRIES

\* Fault seeding: a loop that runs one attempt more.
IsLastAttemptOneLate(kind) == kind = "auth" \/ attempt > MAX_RETRIES

\* The attempt in flight is the last one of withRetry when it fails this way.
IsLastAttempt(kind) == kind = "auth" \/ attempt >= MAX_RETRIES

CanFail(kind) ==
    /\ phase = "wait"
    /\ kind = "timeout" => abandoned < MaxAbandoned

\* A request left behind by a timeout is still open at the Oracle.
AbandonedAfter(kind) == IF kind = "timeout" THEN abandoned + 1 ELSE abandoned

\* Requests of the session the Oracle has not answered yet.
Outstanding == (IF phase = "wait" THEN 1 ELSE 0) + abandoned

\* apiCall() of attempt 1 runs synchronously when withRetry is entered.
BeginCall(name) ==
    /\ pc' = name
    /\ attempt' = 1
    /\ phase' = "wait"

EndFlow ==
    /\ pc' = "idle"
    /\ flowKind' = "none"
    /\ staleSystem' = None
    /\ lastAnswer' = None
    /\ historySnapshot' = <<>>
    /\ aiConfidence' = 0
    /\ aiTopDiagnosis' = ""
    /\ authFailed' = FALSE
    /\ attempt' = 0
    /\ phase' = "none"

AttemptFails(kind) ==
    /\ pc # "idle"
    /\ CanFail(kind)
    /\ ~IsLastAttempt(kind)
    /\ phase' = "delay"
    /\ abandoned' = AbandonedAfter(kind)
    /\ UNCHANGED <<uiVars, adaptiveSystem, flowVars, attempt, restarts, turnAnalysis>>
    /\ UNCHANGED <<callVars, retryVars, extractVars, analysisVars, cleanVars>>

RetryAttempt ==
    /\ pc # "idle"
    /\ phase = "delay"
    /\ phase' = "wait"
    /\ attempt' = attempt + 1
    /\ UNCHANGED <<uiVars, adaptiveSystem, flowVars, abandoned, restarts, turnAnalysis>>
    /\ UNCHANGED <<callVars, retryVars, extractVars, analysisVars, cleanVars>>

AbandonedSettles ==
    /\ abandoned > 0
    /\ abandoned' = abandoned - 1
    /\ UNCHANGED <<uiVars, adaptiveSystem, flowVars, attempt, phase, restarts, turnAnalysis>>
    /\ UNCHANGED <<callVars, retryVars, extractVars, analysisVars, cleanVars>>

(***************************************************************************)
(* DiagnosisContainer: user events.                                        *)
(***************************************************************************)
\* performDiagnosis up to its first await: setIsLoading(true),
\* setError(null), analyzeSymptoms(...) sends its first attempt.
BeginPerformDiagnosis ==
    /\ isLoading' = TRUE
    /\ error' = None
    /\ BeginCall("diag_analyze")

\* WelcomeScreen onStart.
OnStart ==
    /\ View = "welcome"
    /\ ~IsSome(tracker)
    /\ step' = "symptom-collection"
    /\ UNCHANGED <<dataStep, isLoading, error, currentQuestion, questionCount,
                   questionHistory, questionAnswers, diagnoses, guidance,
                   diagnosticProgress, adaptiveSystem, flowVars, netVars,
                   restarts, turnAnalysis>>
    /\ UNCHANGED <<callVars, retryVars, extractVars, analysisVars, cleanVars>>
    /\ saveEffect

\* handleDataCollectionNext; on the last step it starts generateFirstQuestion,
\* which creates the engine and sends the initial analyzeSymptoms request.
\* performDiagnosis, when this flow reaches it, is the closure of the same
\* render: it sees the adaptiveSystem state of before this event
\* (staleSystem).
HandleDataCollectionNext ==
    /\ View = "symptom-collection"
    /\ IF dataStep < LastDataStep
       THEN /\ dataStep' = dataStep + 1
            /\ UNCHANGED <<step, isLoading, error, currentQuestion, questionCount,
                           questionHistory, questionAnswers, diagnoses, guidance,
                           diagnosticProgress, adaptiveSystem, flowVars, netVars,
                           restarts, turnAnalysis>>
       ELSE /\ step' = "dynamic-questions"
            /\ isLoading' = TRUE
            /\ error' = None
            /\ staleSystem' = adaptiveSystem
            /\ adaptiveSystem' = Some(NewAdaptiveDiagnosticSystem)
            /\ flowKind' = "first"
            /\ authFailed' = FALSE
            /\ BeginCall("first_analyze")
            /\ turnAnalysis' = "none"
            /\ UNCHANGED <<dataStep, currentQuestion, questionCount, questionHistory,
                           questionAnswers, diagnoses, guidance, diagnosticProgress,
                           lastAnswer, historySnapshot, aiConfidence, aiTopDiagnosis,
                           abandoned, restarts>>
    /\ UNCHANGED <<callVars, retryVars, extractVars, analysisVars, cleanVars>>
    /\ saveEffect

\* DynamicQuestionCard handleSubmit -> handleQuestionAnswer ->
\* generateNextQuestionBasedOnAnswer, up to its first await.
HandleQuestionAnswer(answer) ==
    /\ View = "question"
    /\ IsSome(currentQuestion)
    /\ answer \in AnswersTo(Val(currentQuestion))
    /\ Truthy(answer) \/ answer = Num(0)
    /\ LET q == Val(currentQuestion)
           updatedHistory == Append(questionHistory, q.question)
           symptomDetail == containerConvertAnswer(Some(answer), updatedHistory, PrimarySymptom)
       IN
       /\ questionAnswers' = Append(questionAnswers, [question |-> q.question, answer |-> answer])
       /\ questionHistory' = updatedHistory
       /\ historySnapshot' = updatedHistory
       /\ currentQuestion' = None
       /\ isLoading' = TRUE
       /\ flowKind' = "turn"
       /\ authFailed' = FALSE
       /\ lastAnswer' = Some(answer)
       /\ turnAnalysis' = "none"
       /\ aiConfidence' = IF IsSome(diagnosticProgress)
                           THEN Val(diagnosticProgress).currentConfidence ELSE 0
       /\ aiTopDiagnosis' = ""
       /\ IF ~IsSome(adaptiveSystem)
          THEN \* throw 'Adaptive system not initialized' -> catch -> performDiagnosis
               /\ error' = None
               /\ BeginCall("diag_analyze")
               /\ UNCHANGED adaptiveSystem
          ELSE IF IsSome(symptomDetail)
          THEN \* await adaptiveSystem.updateWithRealTimeAnalysis(answersSnapshot)
               /\ BeginCall("turn_analyze")
               /\ UNCHANGED <<error, adaptiveSystem>>
          ELSE LET r == adaptiveStep(Val(adaptiveSystem), Some(answer), TRUE, updatedHistory) IN
               /\ adaptiveSystem' = Some(r.sys)
               /\ IF r.stopCheck.shouldStop
                  THEN /\ error' = None
                       /\ BeginCall("diag_analyze")
                  ELSE /\ BeginCall("turn_question")
                       /\ UNCHANGED error
    /\ UNCHANGED <<step, dataStep, questionCount, diagnoses, guidance,
                   diagnosticProgress, staleSystem, abandoned, restarts>>
    /\ UNCHANGED <<callVars, retryVars, extractVars, analysisVars, cleanVars>>
    /\ saveEffect

\* handleRestart: the button is on every view but the welcome screen (which
\* is rendered with showReturnToHome false).  It does not reset isLoading,
\* adaptiveSystem or diagnosticProgress, and a running flow keeps running.
HandleRestart ==
    /\ View # "welcome"
    /\ restarts < MaxRestarts
    /\ restarts' = restarts + 1
    /\ step' = "welcome"
    /\ dataStep' = 0
    /\ currentQuestion' = None
    /\ questionCount' = 0
    /\ questionHistory' = <<>>
    /\ questionAnswers' = <<>>
    /\ diagnoses' = <<>>
    /\ guidance' = None
    /\ error' = None
    /\ UNCHANGED <<isLoading, diagnosticProgress, adaptiveSystem, flowVars, netVars,
                   turnAnalysis>>
    /\ UNCHANGED <<callVars, retryVars, extractVars, analysisVars, cleanVars>>
    \* removeItem, then the save effect of the next render: the setters were
    \* given new array and object references
    /\ storage' = Some(JSONStringify(stateToSave'))

(***************************************************************************)
(* DiagnosisContainer: continuations of the flows, one action per Oracle   *)
(* result.  A request ends with a payload (Succeeds) or with the error     *)
(* that withRetry throws after its last attempt (Throws).                  *)
(***************************************************************************)
\* The tail of generateFirstQuestion / generateNextQuestionBasedOnAnswer
\* after generateNextQuestionWithAdaptiveSystem is entered with engine `sys`.
ContinueWithAdaptiveSystem(sys, answer, hasAnswers, history) ==
    LET r == adaptiveStep(sys, answer, hasAnswers, history) IN
    /\ adaptiveSystem' = Some(r.sys)
    /\ IF r.stopCheck.shouldStop
       THEN BeginPerformDiagnosis
       ELSE /\ BeginCall(IF flowKind = "first" THEN "first_question" ELSE "turn_question")
            /\ UNCHANGED <<isLoading, error>>

\* generateFirstQuestion after the initial analyzeSymptoms.
FirstAnalyzeSucceeds(initialDiagnoses) ==
    /\ pc = "first_analyze" /\ phase = "wait"
    /\ initialDiagnoses \in DiagLists
    /\ LET adaptive == Val(adaptiveSystem)
           sys1 == IF Len(initialDiagnoses) > 0
                   THEN updateWithAIDiagnoses(adaptive, initialDiagnoses) ELSE adaptive
       IN ContinueWithAdaptiveSystem(sys1, None, FALSE, <<>>)
    /\ UNCHANGED <<step, dataStep, currentQuestion, questionCount, questionHistory,
                   questionAnswers, diagnoses, guidance, diagnosticProgress,
                   flowKind, staleSystem, lastAnswer, historySnapshot,
                   aiConfidence, aiTopDiagnosis, authFailed, abandoned, restarts,
                   turnAnalysis>>
    /\ UNCHANGED <<callVars, retryVars, extractVars, analysisVars, cleanVars>>
    /\ saveEffect

FirstAnalyzeThrows(kind) ==
    /\ pc = "first_analyze" /\ CanFail(kind) /\ IsLastAttempt(kind)
    /\ ContinueWithAdaptiveSystem(Val(adaptiveSystem), None, FALSE, <<>>)
    /\ abandoned' = AbandonedAfter(kind)
    /\ authFailed' = (authFailed \/ kind = "auth")
    /\ UNCHANGED <<step, dataStep, currentQuestion, questionCount, questionHistory,
                   questionAnswers, diagnoses, guidance, diagnosticProgress,
                   flowKind, staleSystem, lastAnswer, historySnapshot,
                   aiConfidence, aiTopDiagnosis, restarts, turnAnalysis>>
    /\ UNCHANGED <<callVars, retryVars, extractVars, analysisVars, cleanVars>>
    /\ saveEffect

\* response.question && !response.shouldStop && response.adaptiveSystem
Presents(response) == IsSome(response.question) /\ ~response.shouldStop

FirstQuestionSucceeds(response) ==
    /\ pc = "first_question" /\ phase = "wait"
    /\ response \in QuestionResponses
    /\ IF Presents(response)
       THEN /\ currentQuestion' = response.question
            /\ questionCount' = 1
            /\ questionHistory' = <<Val(response.question).question>>
            /\ questionAnswers' = <<>>
            /\ diagnosticProgress' = Some(ProgressOf(Val(adaptiveSystem)))
            /\ isLoading' = FALSE
            /\ EndFlow
            /\ UNCHANGED error
       ELSE /\ BeginPerformDiagnosis
            /\ UNCHANGED <<currentQuestion, questionCount, questionHistory,
                           questionAnswers, diagnosticProgress, flowKind, staleSystem,
                           lastAnswer, historySnapshot, aiConfidence, aiTopDiagnosis,
                           authFailed>>
    /\ UNCHANGED <<step, dataStep, diagnoses, guidance, adaptiveSystem, abandoned,
                   restarts, turnAnalysis>>
    /\ UNCHANGED <<callVars, retryVars, extractVars, analysisVars, cleanVars>>
    /\ saveEffect

\* catch of generateFirstQuestion / generateNextQuestionBasedOnAnswer:
\* setError(...), then performDiagnosis, whose setError(null) follows in the
\* same run.
QuestionThrows(kind) ==
    /\ pc \in {"first_question", "turn_question"}
    /\ CanFail(kind) /\ IsLastAttempt(kind)
    /\ BeginPerformDiagnosis
    /\ abandoned' = AbandonedAfter(kind)
    /\ authFailed' = (authFailed \/ kind = "auth")
    /\ UNCHANGED <<step, dataStep, currentQuestion, questionCount, questionHistory,
                   questionAnswers, diagnoses, guidance, diagnosticProgress,
                   adaptiveSystem, flowKind, staleSystem, lastAnswer, historySnapshot,
                   aiConfidence, aiTopDiagnosis, restarts, turnAnalysis>>
    /\ UNCHANGED <<callVars, retryVars, extractVars, analysisVars, cleanVars>>
    /\ saveEffect

\* generateNextQuestionBasedOnAnswer after updateWithRealTimeAnalysis.
TurnAnalyzeDone(outcome) ==
    LET u == updateWithRealTimeAnalysis(Val(adaptiveSystem), outcome)
        pd == u.sys.possibleDiagnoses
    IN
    /\ aiConfidence' = IF u.threw THEN aiConfidence ELSE u.sys.currentConfidence
    /\ aiTopDiagnosis' = IF u.threw THEN aiTopDiagnosis
                         ELSE IF Len(pd) = 0 THEN "" ELSE pd[1].name
    /\ turnAnalysis' = IF u.threw THEN "escaped" ELSE IF outcome.ok THEN "ok" ELSE "failed"
    /\ ContinueWithAdaptiveSystem(u.sys, lastAnswer, TRUE, historySnapshot)
    /\ UNCHANGED <<step, dataStep, currentQuestion, questionCount, questionHistory,
                   questionAnswers, diagnoses, guidance, diagnosticProgress,
                   flowKind, staleSystem, lastAnswer, historySnapshot, restarts>>

TurnAnalyzeSucceeds(aiDiagnoses) ==
    /\ pc = "turn_analyze" /\ phase = "wait"
    /\ aiDiagnoses \in DiagLists
    /\ TurnAnalyzeDone(Returned(aiDiagnoses))
    /\ UNCHANGED <<abandoned, authFailed>>
    /\ UNCHANGED <<callVars, retryVars, extractVars, analysisVars, cleanVars>>
    /\ saveEffect

TurnAnalyzeThrows(kind) ==
    /\ pc = "turn_analyze" /\ CanFail(kind) /\ IsLastAttempt(kind)
    /\ TurnAnalyzeDone(Threw)
    /\ abandoned' = AbandonedAfter(kind)
    /\ authFailed' = (authFailed \/ kind = "auth")
    /\ UNCHANGED <<callVars, retryVars, extractVars, analysisVars, cleanVars>>
    /\ saveEffect

TurnQuestionSucceeds(response) ==
    /\ pc = "turn_question" /\ phase = "wait"
    /\ response \in QuestionResponses
    /\ IF Presents(response)
       THEN /\ currentQuestion' = response.question
            /\ questionCount' = questionCount + 1
            /\ questionHistory' = Append(questionHistory, Val(response.question).question)
            /\ diagnosticProgress' =
                   Some(PreservedProgress(diagnosticProgress, Val(adaptiveSystem),
                            containerConvertAnswer(lastAnswer, historySnapshot, PrimarySymptom),
                            aiConfidence, aiTopDiagnosis))
            /\ isLoading' = FALSE
            /\ EndFlow
            /\ UNCHANGED error
       ELSE /\ BeginPerformDiagnosis
            /\ UNCHANGED <<currentQuestion, questionCount, questionHistory,
                           diagnosticProgress, flowKind, staleSystem,
                           lastAnswer, historySnapshot, aiConfidence, aiTopDiagnosis,
                           authFailed>>
    /\ UNCHANGED <<step, dataStep, questionAnswers, diagnoses, guidance, adaptiveSystem,
                   abandoned, restarts, turnAnalysis>>
    /\ UNCHANGED <<callVars, retryVars, extractVars, analysisVars, cleanVars>>
    /\ saveEffect

(***************************************************************************)
(* performDiagnosis.                                                       *)
(***************************************************************************)
FallbackDiagnoses == <<Diagnosis("fallback", FallbackProbability, "routine")>>

\* The engine that the running performDiagnosis closure refers to.
DiagnosisSystem == IF flowKind = "first" THEN staleSystem ELSE adaptiveSystem

DiagAnalyzeSucceeds(diagnosisResults) ==
    /\ pc = "diag_analyze" /\ phase = "wait"
    /\ diagnosisResults \in DiagLists
    /\ diagnoses' = diagnosisResults
    /\ IF IsSome(DiagnosisSystem) /\ Len(diagnosisResults) > 0
       THEN LET updated == updateWithAIDiagnoses(Val(DiagnosisSystem), diagnosisResults) IN
            /\ IF flowKind = "first"
               THEN staleSystem' = Some(updated) /\ UNCHANGED <<adaptiveSystem, turnAnalysis>>
               ELSE adaptiveSystem' = Some(updated) /\ turnAnalysis' = "none"
                    /\ UNCHANGED staleSystem
            /\ diagnosticProgress' = Some(ProgressOf(updated))
       ELSE UNCHANGED <<adaptiveSystem, staleSystem, diagnosticProgress, turnAnalysis>>
    /\ BeginCall("diag_guidance")
    /\ UNCHANGED <<step, dataStep, isLoading, error, currentQuestion, questionCount,
                   questionHistory, questionAnswers, guidance, flowKind, lastAnswer,
                   historySnapshot, aiConfidence, aiTopDiagnosis, authFailed, abandoned,
                   restarts>>
    /\ UNCHANGED <<callVars, retryVars, extractVars, analysisVars, cleanVars>>
    /\ saveEffect

DiagGuidanceSucceeds(updatedGuidance) ==
    /\ pc = "diag_guidance" /\ phase = "wait"
    /\ updatedGuidance \in GuidanceResponses
    /\ guidance' = updatedGuidance
    /\ step' = "results"
    /\ isLoading' = FALSE
    /\ EndFlow
    /\ UNCHANGED <<dataStep, error, currentQuestion, questionCount, questionHistory,
                   questionAnswers, diagnoses, diagnosticProgress, adaptiveSystem,
                   abandoned, restarts, turnAnalysis>>
    /\ UNCHANGED <<callVars, retryVars, extractVars, analysisVars, cleanVars>>
    /\ saveEffect

\* catch of performDiagnosis: fallback results.
DiagnosisThrows(kind) ==
    /\ pc \in {"diag_analyze", "diag_guidance"}
    /\ CanFail(kind) /\ IsLastAttempt(kind)
    /\ error' = Some("performingDiagnosis")
    /\ diagnoses' = FallbackDiagnoses
    /\ guidance' = Some(FallbackGuidance)
    /\ step' = "results"
    /\ isLoading' = FALSE
    /\ EndFlow
    /\ abandoned' = AbandonedAfter(kind)
    /\ UNCHANGED <<dataStep, currentQuestion, questionCount, questionHistory,
                   questionAnswers, diagnosticProgress, adaptiveSystem,
                   restarts, turnAnalysis>>
    /\ UNCHANGED <<callVars, retryVars, extractVars, analysisVars, cleanVars>>
    /\ saveEffect

(***************************************************************************)
(* The classes on their own: calls of the public operations of an engine   *)
(* and of a DiagnosisTracker outside a session.  (updateQuestionStrategy   *)
(* is private; it is called as the last step of updateWithAIDiagnoses and  *)
(* is exercised here on its own as well.)                                  *)
(***************************************************************************)
\* new AdaptiveDiagnosticSystem(patientProfile)
CallConstructEngine ==
    /\ ~IsSome(adaptiveSystem) /\ ~IsSome(tracker) /\ calls < MaxCalls
    /\ adaptiveSystem' = Some(NewAdaptiveDiagnosticSystem)
    /\ lastCall' = "AdaptiveDiagnosticSystem"
    /\ lastArg' = None
    /\ calls' = calls + 1
    /\ UNCHANGED <<uiVars, flowVars, netVars, restarts, turnAnalysis, tracker, stopResult,
                   retryVars, extractVars, analysisVars, cleanVars>>

CallShouldStop ==
    /\ IsSome(adaptiveSystem) /\ calls < MaxCalls
    /\ stopResult' = Some(shouldStop(Val(adaptiveSystem)))
    /\ lastCall' = "shouldStop"
    /\ lastArg' = None
    /\ calls' = calls + 1
    /\ UNCHANGED <<uiVars, adaptiveSystem, flowVars, netVars, restarts, turnAnalysis, tracker, retryVars, extractVars, analysisVars, cleanVars>>

CallUpdateQuestionStrategy ==
    /\ IsSome(adaptiveSystem) /\ calls < MaxCalls
    /\ adaptiveSystem' = Some(updateQuestionStrategy(Val(adaptiveSystem)))
    /\ stopResult' = None
    /\ lastCall' = "updateQuestionStrategy"
    /\ lastArg' = None
    /\ calls' = calls + 1
    /\ UNCHANGED <<uiVars, flowVars, netVars, restarts, turnAnalysis, tracker, retryVars, extractVars, analysisVars, cleanVars>>

CallUpdateWithAIDiagnoses(aiDiagnoses) ==
    /\ IsSome(adaptiveSystem) /\ calls < MaxCalls
    /\ adaptiveSystem' = Some(updateWithAIDiagnoses(Val(adaptiveSystem), aiDiagnoses))
    /\ stopResult' = None
    /\ lastCall' = "updateWithAIDiagnoses"
    /\ lastArg' = Some(aiDiagnoses)
    /\ calls' = calls + 1
    /\ UNCHANGED <<uiVars, flowVars, netVars, restarts, turnAnalysis, tracker, retryVars, extractVars, analysisVars, cleanVars>>

CallUpdateDiagnosis(newSymptomDetail) ==
    /\ IsSome(adaptiveSystem) /\ calls < MaxCalls
    /\ adaptiveSystem' = Some(updateDiagnosis(Val(adaptiveSystem), newSymptomDetail))
    /\ stopResult' = None
    /\ lastCall' = "updateDiagnosis"
    /\ lastArg' = None
    /\ calls' = calls + 1
    /\ UNCHANGED <<uiVars, flowVars, netVars, restarts, turnAnalysis, tracker, retryVars, extractVars, analysisVars, cleanVars>>

\* A tracker is exercised where no session of the current container runs.
TrackerCall(name) ==
    /\ step = "welcome" /\ ~IsSome(adaptiveSystem)
    /\ calls < MaxCalls
    /\ lastCall' = name
    /\ calls' = calls + 1
    /\ UNCHANGED <<uiVars, adaptiveSystem, flowVars, netVars, restarts, turnAnalysis, stopResult, retryVars, extractVars, analysisVars, cleanVars>>

ConstructTracker ==
    /\ ~IsSome(tracker)
    /\ tracker' = Some(NewDiagnosisTracker)
    /\ TrackerCall("DiagnosisTracker")
    /\ lastArg' = None

TrackerUpdateWithNewSymptom(symptomDetail) ==
    /\ IsSome(tracker)
    /\ Len(Val(tracker).symptoms) < MaxTrackerSymptoms
    /\ tracker' = Some(updateWithNewSymptom(Val(tracker), symptomDetail))
    /\ TrackerCall("tracker.updateWithNewSymptom")
    /\ lastArg' = None

TrackerUpdateWithAIDiagnoses(aiDiagnoses) ==
    /\ IsSome(tracker)
    /\ tracker' = Some(trackerUpdateWithAIDiagnoses(Val(tracker), aiDiagnoses))
    /\ TrackerCall("tracker.updateWithAIDiagnoses")
    /\ lastArg' = Some(aiDiagnoses)

TrackerGetRealTimeConfidenceAnalysis ==
    /\ IsSome(tracker)
    /\ tracker' = Some(getRealTimeConfidenceAnalysis(Val(tracker)))
    /\ TrackerCall("tracker.getRealTimeConfidenceAnalysis")
    /\ lastArg' = None

TrackerShouldStopQuestioning ==
    /\ IsSome(tracker)
    /\ step = "welcome" /\ ~IsSome(adaptiveSystem)
    /\ calls < MaxCalls
    /\ stopResult' = Some([shouldStop |-> shouldStopQuestioning(Val(tracker)), reason |-> None])
    /\ lastCall' = "tracker.shouldStopQuestioning"
    /\ lastArg' = None
    /\ calls' = calls + 1
    /\ UNCHANGED <<uiVars, adaptiveSystem, flowVars, netVars, restarts, turnAnalysis, tracker, retryVars, extractVars, analysisVars, cleanVars>>

TrackerStep ==
    \/ ConstructTracker
    \/ TrackerShouldStopQuestioning
    \/ \E symptomDetail \in TrackerSymptoms : TrackerUpdateWithNewSymptom(symptomDetail)
    \/ \E aiDiagnoses \in DiagLists \cup UrgencyLists :
           TrackerUpdateWithAIDiagnoses(aiDiagnoses)
    \/ TrackerGetRealTimeConfidenceAnalysis

(***************************************************************************)
(* The session.                                                            *)
(***************************************************************************)
\* An answer to the question on the card, while the exploration has turns
\* left.
BoundedAnswer(bound, answer) ==
    /\ Len(questionAnswers) < bound
    /\ HandleQuestionAnswer(answer)

UserStep ==
    \/ OnStart
    \/ HandleDataCollectionNext
    \/ \E answer \in {Num(0), Num(9), Str(TextFeverCough)} : BoundedAnswer(MaxTurns, answer)
    \/ HandleRestart

OracleStep ==
    \/ \E kind \in FailureKinds : AttemptFails(kind)
    \/ RetryAttempt
    \/ AbandonedSettles
    \/ \E l \in DiagLists : FirstAnalyzeSucceeds(l)
    \/ \E kind \in FailureKinds : FirstAnalyzeThrows(kind)
    \/ \E r \in QuestionResponses : FirstQuestionSucceeds(r)
    \/ \E kind \in FailureKinds : QuestionThrows(kind)
    \/ \E l \in DiagLists : TurnAnalyzeSucceeds(l)
    \/ \E kind \in FailureKinds : TurnAnalyzeThrows(kind)
    \/ \E r \in QuestionResponses : TurnQuestionSucceeds(r)
    \/ \E l \in DiagLists : DiagAnalyzeSucceeds(l)
    \/ \E g \in GuidanceResponses : DiagGuidanceSucceeds(g)
    \/ \E kind \in FailureKinds : DiagnosisThrows(kind)

Next == UserStep \/ OracleStep \/ TrackerStep

Spec == Init /\ [][Next]_vars

(***************************************************************************)
(* The functions of the engine and the tracker over Progress values.       *)
(***************************************************************************)
FunctionInit ==
    /\ ContainerInit
    /\ Mounted
    /\ adaptiveSystem \in {None} \cup {Some(p) : p \in ProgressValues}
    /\ NoCalls
    /\ NoExtractorCall
    /\ NoAnalysisCall
    /\ NoCleanCall

FunctionNext ==
    \/ CallConstructEngine
    \/ CallShouldStop
    \/ CallUpdateQuestionStrategy
    \/ \E aiDiagnoses \in DiagLists \cup UrgencyLists :
           CallUpdateWithAIDiagnoses(aiDiagnoses)
    \/ \E e \in EvidenceLists \ {<<>>} : CallUpdateDiagnosis(e[1])
    \/ TrackerStep

FunctionSpec == FunctionInit /\ [][FunctionNext]_vars

(***************************************************************************)
(* A session in which the user answers every severity scale with 0 and no  *)
(* request fails: a run of the session that is long enough for the         *)
(* question budget.                                                        *)
(***************************************************************************)
BudgetNext ==
    \/ OnStart
    \/ HandleDataCollectionNext
    \/ BoundedAnswer(MaxBudgetTurns, Num(0))
    \/ \E l \in DiagLists : FirstAnalyzeSucceeds(l)
    \/ \E r \in QuestionResponses : FirstQuestionSucceeds(r)
    \/ \E r \in QuestionResponses : TurnQuestionSucceeds(r)
    \/ \E l \in DiagLists : DiagAnalyzeSucceeds(l)
    \/ \E g \in GuidanceResponses : DiagGuidanceSucceeds(g)

BudgetSpec == Init /\ [][BudgetNext]_vars

(***************************************************************************)
(* withRetry on its own: invocations of withRetry(apiCall, errorMessage)   *)
(* outside a session, with the error it caught last and the way it ended   *)
(* kept for observation.  `attempt` is the loop variable, which is also    *)
(* the number of times apiCall() has been called by the invocation.        *)
(***************************************************************************)
\* withRetry is entered: attempt 1 is sent.
WithRetryCalled ==
    /\ pc = "idle" /\ phase = "none"
    /\ calls < MaxCalls
    /\ attempt' = 1
    /\ phase' = "wait"
    /\ lastError' = None
    /\ retryOutcome' = "pending"
    /\ lastCall' = "withRetry"
    /\ lastArg' = None
    /\ calls' = calls + 1
    /\ UNCHANGED <<uiVars, adaptiveSystem, flowVars, abandoned, restarts, turnAnalysis,
                   tracker, stopResult, extractVars, analysisVars, cleanVars>>

\* The attempt in flight resolves: return result.
WithRetryReturns ==
    /\ pc = "idle" /\ phase = "wait"
    /\ phase' = "none"
    /\ retryOutcome' = "returned"
    /\ UNCHANGED <<uiVars, adaptiveSystem, flowVars, attempt, abandoned, restarts,
                   turnAnalysis, callVars, lastError, extractVars, analysisVars, cleanVars>>

\* The attempt in flight fails: the catch block, which breaks out of the
\* loop on an authentication error, leaves it after the last attempt, and
\* otherwise waits RETRY_DELAY; after the loop the error is thrown.
WithRetryCatches(kind) ==
    /\ pc = "idle" /\ CanFail(kind)
    /\ lastError' = Some(kind)
    /\ abandoned' = AbandonedAfter(kind)
    /\ IF IsLastAttempt(kind)
       THEN phase' = "none" /\ retryOutcome' = "thrown"
       ELSE phase' = "delay" /\ UNCHANGED retryOutcome
    /\ UNCHANGED <<uiVars, adaptiveSystem, flowVars, attempt, restarts, turnAnalysis,
                   callVars, extractVars, analysisVars, cleanVars>>

\* RETRY_DELAY is over: the next iteration of the loop sends its attempt.
WithRetryDelayEnds ==
    /\ pc = "idle" /\ phase = "delay"
    /\ attempt' = attempt + 1
    /\ phase' = "wait"
    /\ UNCHANGED <<uiVars, adaptiveSystem, flowVars, abandoned, restarts, turnAnalysis,
                   callVars, retryVars, extractVars, analysisVars, cleanVars>>

RetryNext ==
    \/ WithRetryCalled
    \/ WithRetryReturns
    \/ \E kind \in FailureKinds : WithRetryCatches(kind)
    \/ WithRetryDelayEnds
    \/ AbandonedSettles

RetrySpec == Init /\ [][RetryNext]_vars

\* withRetry with the scheduling its timers give: withTimeout ends an attempt
\* that neither resolves nor rejects after REQUEST_TIMEOUT, and the wait
\* between two attempts ends after RETRY_DELAY.
FairRetrySpec ==
    /\ RetrySpec
    /\ WF_vars(WithRetryReturns \/ \E kind \in FailureKinds : WithRetryCatches(kind))
    /\ WF_vars(WithRetryDelayEnds)

(***************************************************************************)
(* The two engine objects of the container variant that keeps a tracker    *)
(* next to the adaptive system.  Both are constructed from one             *)
(* patientProfile object: the adaptive system stores the object itself,    *)
(* the tracker stores a shallow copy { ...patientProfile }, whose symptoms  *)
(* field is the same array.  A push through either object is therefore     *)
(* seen through both.                                                      *)
(***************************************************************************)
\* generateFirstQuestion of that variant, up to setDiagnosisTracker.
ConstructPair ==
    /\ ~IsSome(adaptiveSystem) /\ ~IsSome(tracker)
    /\ calls < MaxCalls
    /\ adaptiveSystem' = Some(NewAdaptiveDiagnosticSystem)
    /\ tracker' = Some(NewDiagnosisTracker)
    /\ stopResult' = None
    /\ lastCall' = "generateFirstQuestion"
    /\ lastArg' = None
    /\ calls' = calls + 1
    /\ UNCHANGED <<uiVars, flowVars, netVars, restarts, turnAnalysis, retryVars, extractVars, analysisVars, cleanVars>>

\* adaptiveSystem.updateDiagnosis: the push lands in the array the tracker's
\* profile refers to; nothing else of the tracker is recomputed.
PairUpdateDiagnosis(newSymptomDetail) ==
    /\ IsSome(adaptiveSystem) /\ IsSome(tracker)
    /\ calls < MaxCalls
    /\ adaptiveSystem' = Some(updateDiagnosis(Val(adaptiveSystem), newSymptomDetail))
    /\ tracker' = Some([Val(tracker) EXCEPT !.symptoms = Append(@, newSymptomDetail)])
    /\ stopResult' = None
    /\ lastCall' = "updateDiagnosis"
    /\ lastArg' = None
    /\ calls' = calls + 1
    /\ UNCHANGED <<uiVars, flowVars, netVars, restarts, turnAnalysis, retryVars, extractVars, analysisVars, cleanVars>>

\* diagnosisTracker.updateWithNewSymptom: the push lands in the array the
\* adaptive system's profile refers to.
PairUpdateWithNewSymptom(symptomDetail) ==
    /\ IsSome(adaptiveSystem) /\ IsSome(tracker)
    /\ calls < MaxCalls
    /\ tracker' = Some(updateWithNewSymptom(Val(tracker), symptomDetail))
    /\ adaptiveSystem' = Some([Val(adaptiveSystem) EXCEPT !.symptoms = Append(@, symptomDetail)])
    /\ stopResult' = None
    /\ lastCall' = "tracker.updateWithNewSymptom"
    /\ lastArg' = None
    /\ calls' = calls + 1
    /\ UNCHANGED <<uiVars, flowVars, netVars, restarts, turnAnalysis, retryVars, extractVars, analysisVars, cleanVars>>

\* The exploration keeps to Evidence lists whose average severity times 5 is
\* a whole number, so that HeuristicConfidence is the number the code
\* computes.
WholeAverage(symptoms) ==
    IF symptoms = <<>> THEN TRUE ELSE (SumSeverity(symptoms) * 5) % Len(symptoms) = 0

\* One turn of generateNextQuestionBasedOnAnswer of that variant with earlier
\* answers in questionAnswers, as far as the two objects go: generateNextQuestionWithAdaptiveSystem hands the
\* Evidence of the service's extractor to adaptiveSystem.updateDiagnosis,
\* then the Evidence of the container's extractor goes to
\* diagnosisTracker.updateWithNewSymptom and getRealTimeConfidenceAnalysis
\* runs.  Both pushes land in the one array.  (The next-question request
\* awaited in between touches neither object.)
PairTurn(answer, history) ==
    /\ IsSome(adaptiveSystem) /\ IsSome(tracker)
    /\ calls < MaxCalls
    /\ LET r == adaptiveStep(Val(adaptiveSystem), answer, TRUE, history)
           shared1 == r.sys.symptoms
           symptomDetail == containerConvertAnswer(answer, history, PrimarySymptom)
           shared2 == IF IsSome(symptomDetail) THEN Append(shared1, Val(symptomDetail))
                      ELSE shared1
           tracker1 == [Val(tracker) EXCEPT !.symptoms = shared1]
       IN /\ WholeAverage(shared2)
          /\ adaptiveSystem' = Some([r.sys EXCEPT !.symptoms = shared2])
          /\ tracker' = IF IsSome(symptomDetail)
                        THEN Some(getRealTimeConfidenceAnalysis(
                                      updateWithNewSymptom(tracker1, Val(symptomDetail))))
                        ELSE Some(tracker1)
          /\ stopResult' = Some(r.stopCheck)
    /\ answerArg' = answer
    /\ historyArg' = history
    /\ lastCall' = "generateNextQuestionBasedOnAnswer"
    /\ lastArg' = None
    /\ calls' = calls + 1
    /\ UNCHANGED <<uiVars, flowVars, netVars, restarts, turnAnalysis, retryVars, extracted, analysisVars, cleanVars>>

PairNext ==
    \/ ConstructPair
    \/ \E answer \in AnswerInputs, history \in HistoryInputs : PairTurn(answer, history)
    \/ \E d \in TrackerSymptoms : PairUpdateDiagnosis(d)
    \/ \E d \in TrackerSymptoms : PairUpdateWithNewSymptom(d)
    \/ CallShouldStop
    \/ CallUpdateQuestionStrategy
    \/ \E aiDiagnoses \in DiagLists : CallUpdateWithAIDiagnoses(aiDiagnoses)

PairSpec == Init /\ [][PairNext]_vars

(***************************************************************************)
(* The application restarted (the page loaded again) at any moment of a    *)
(* session.                                                                *)
(***************************************************************************)
\* A new mount of DiagnosisContainer: every useState starts from its initial
\* value and the flows of the page before are gone.  The load effect removes
\* the item of STORAGE_KEY before it reads it, so getItem returns null and
\* the restoring branch is never entered; then the save effect writes the
\* state of the first render.
Reload ==
    /\ step' = "welcome"
    /\ dataStep' = 0
    /\ isLoading' = FALSE
    /\ error' = None
    /\ currentQuestion' = None
    /\ questionCount' = 0
    /\ questionHistory' = <<>>
    /\ questionAnswers' = <<>>
    /\ diagnoses' = <<>>
    /\ guidance' = None
    /\ diagnosticProgress' = None
    /\ adaptiveSystem' = None
    /\ pc' = "idle"
    /\ flowKind' = "none"
    /\ staleSystem' = None
    /\ lastAnswer' = None
    /\ historySnapshot' = <<>>
    /\ aiConfidence' = 0
    /\ aiTopDiagnosis' = ""
    /\ authFailed' = FALSE
    /\ attempt' = 0
    /\ phase' = "none"
    /\ abandoned' = 0
    /\ restarts' = 0
    /\ turnAnalysis' = "none"
    /\ storage' = Some(JSONStringify(stateToSave'))
    /\ UNCHANGED <<callVars, retryVars, extractVars, analysisVars, cleanVars>>

ReloadNext == Next \/ Reload

ReloadSpec == Init /\ [][ReloadNext]_vars

(***************************************************************************)
(* The answer extractor on its own: the two convertAnswerToSymptomDetail   *)
(* functions and the part of generateNextQuestionWithAdaptiveSystem that   *)
(* hands the Evidence to the engine, over drawn answers and histories.     *)
(***************************************************************************)
ExtractorInit ==
    /\ ContainerInit
    /\ Mounted
    /\ adaptiveSystem = Some(NewAdaptiveDiagnosticSystem)
    /\ tracker = Some(NewDiagnosisTracker)
    /\ stopResult = None
    /\ lastCall = "none"
    /\ calls = 0
    /\ lastArg = None
    /\ lastError = None
    /\ retryOutcome = "none"
    /\ answerArg \in AnswerInputs
    /\ historyArg \in HistoryInputs
    /\ extracted = None
    /\ NoAnalysisCall
    /\ NoCleanCall

CallConvertAnswerToSymptomDetail ==
    /\ calls < MaxCalls
    /\ extracted' = Some(convertAnswerToSymptomDetail(answerArg, historyArg, PrimarySymptom))
    /\ lastCall' = "convertAnswerToSymptomDetail"
    /\ lastArg' = None
    /\ calls' = calls + 1
    /\ UNCHANGED <<uiVars, adaptiveSystem, flowVars, netVars, restarts, turnAnalysis,
                   tracker, stopResult, retryVars, answerArg, historyArg, analysisVars, cleanVars>>

CallContainerConvertAnswer ==
    /\ calls < MaxCalls
    /\ extracted' = Some(containerConvertAnswer(answerArg, historyArg, PrimarySymptom))
    /\ lastCall' = "DiagnosisContainer.convertAnswerToSymptomDetail"
    /\ lastArg' = None
    /\ calls' = calls + 1
    /\ UNCHANGED <<uiVars, adaptiveSystem, flowVars, netVars, restarts, turnAnalysis,
                   tracker, stopResult, retryVars, answerArg, historyArg, analysisVars, cleanVars>>

\* generateNextQuestionWithAdaptiveSystem up to its stop check, with or
\* without earlier answers in previousAnswers.
CallGenerateNextQuestion(hasAnswers) ==
    /\ IsSome(adaptiveSystem) /\ calls < MaxCalls
    /\ LET r == adaptiveStep(Val(adaptiveSystem), answerArg, hasAnswers, historyArg) IN
       /\ adaptiveSystem' = Some(r.sys)
       /\ stopResult' = Some(r.stopCheck)
    /\ lastCall' = IF hasAnswers THEN "generateNextQuestionWithAdaptiveSystem"
                   ELSE "generateNextQuestionWithAdaptiveSystem (first)"
    /\ lastArg' = None
    /\ calls' = calls + 1
    /\ UNCHANGED <<uiVars, flowVars, netVars, restarts, turnAnalysis, tracker, retryVars,
                   extractVars, analysisVars, cleanVars>>

\* The tracker's part of a turn in the container variant that keeps a
\* tracker: the Evidence of the container's extractor goes to
\* updateWithNewSymptom, then getRealTimeConfidenceAnalysis runs.
CallTrackerTurn ==
    /\ IsSome(tracker) /\ calls < MaxCalls
    /\ LET symptomDetail == containerConvertAnswer(answerArg, historyArg, PrimarySymptom) IN
       tracker' = IF IsSome(symptomDetail)
                  THEN Some(getRealTimeConfidenceAnalysis(
                                updateWithNewSymptom(Val(tracker), Val(symptomDetail))))
                  ELSE tracker
    /\ lastCall' = "tracker turn"
    /\ lastArg' = None
    /\ calls' = calls + 1
    /\ UNCHANGED <<uiVars, adaptiveSystem, flowVars, netVars, restarts, turnAnalysis,
                   stopResult, retryVars, extractVars, analysisVars, cleanVars>>

ExtractorNext ==
    \/ CallConvertAnswerToSymptomDetail
    \/ CallTrackerTurn
    \/ CallContainerConvertAnswer
    \/ \E hasAnswers \in BOOLEAN : CallGenerateNextQuestion(hasAnswers)

ExtractorSpec == ExtractorInit /\ [][ExtractorNext]_vars

(***************************************************************************)
(* analyzeSymptomProfile on its own: the rule tables of                    *)
(* checkCriticalSymptoms and checkRedFlags and the score of                *)
(* calculateCompleteness, over drawn Evidence lists.  An optional string   *)
(* field that is absent is "", an optional list that is absent is None.    *)
(***************************************************************************)
FullDetail(name, severity, onset, location) ==
    [name |-> name, severity |-> severity, duration |-> "", onset |-> onset,
     location |-> location, frequency |-> "", timing |-> None, pattern |-> "",
     triggers |-> None, associatedSymptoms |-> None]

RECURSIVE FlatMap(_, _)
FlatMap(f(_), list) ==
    IF list = <<>> THEN <<>> ELSE f(Head(list)) \o FlatMap(f, Tail(list))

\* Fault seeding: the high-severity rule with an exclusive threshold.
criticalOfStrict(symptom) ==
    (IF symptom.severity > 8
     THEN <<"High severity " \o symptom.name \o " (" \o ToString(symptom.severity) \o "/10)">>
     ELSE <<>>)
    \o (IF symptom.name = "chest_pain" /\ symptom.severity >= 6
        THEN <<"Moderate to severe chest pain">> ELSE <<>>)
    \o (IF symptom.name = "shortness_of_breath" /\ symptom.severity >= 6
        THEN <<"Moderate to severe shortness of breath">> ELSE <<>>)
    \o (IF symptom.name = "headache" /\ symptom.onset = "sudden" /\ symptom.severity >= 8
        THEN <<"Sudden severe headache">> ELSE <<>>)

\* One pass of the loop body of checkCriticalSymptoms.
criticalOf(symptom) ==
    (IF symptom.severity >= 8
     THEN <<"High severity " \o symptom.name \o " (" \o ToString(symptom.severity) \o "/10)">>
     ELSE <<>>)
    \o (IF symptom.name = "chest_pain" /\ symptom.severity >= 6
        THEN <<"Moderate to severe chest pain">> ELSE <<>>)
    \o (IF symptom.name = "shortness_of_breath" /\ symptom.severity >= 6
        THEN <<"Moderate to severe shortness of breath">> ELSE <<>>)
    \o (IF symptom.name = "headache" /\ symptom.onset = "sudden" /\ symptom.severity >= 8
        THEN <<"Sudden severe headache">> ELSE <<>>)

checkCriticalSymptoms(symptomDetails) == FlatMap(criticalOf, symptomDetails)

\* One pass of the loop body of checkRedFlags.
redFlagsOf(symptom) ==
    (IF symptom.name = "chest_pain" /\ symptom.severity >= 7
     THEN <<"Severe chest pain - possible cardiac emergency">> ELSE <<>>)
    \o (IF symptom.name = "shortness_of_breath" /\ symptom.severity >= 8
        THEN <<"Severe shortness of breath - possible respiratory emergency">> ELSE <<>>)
    \o (IF symptom.name = "headache" /\ symptom.onset = "sudden" /\ symptom.severity >= 9
        THEN <<"Thunderclap headache - possible subarachnoid hemorrhage">> ELSE <<>>)
    \o (IF symptom.name = "abdominal_pain" /\ symptom.location = "right_lower_quadrant"
        THEN <<"Right lower quadrant pain - possible appendicitis">> ELSE <<>>)
    \o (IF symptom.severity >= 9
        THEN <<"Severe " \o symptom.name \o " (9-10/10)">> ELSE <<>>)

checkRedFlags(symptomDetails) == FlatMap(redFlagsOf, symptomDetails)

locationRequiredSymptoms ==
    <<"pain", "headache", "chest_pain", "abdominal_pain", "rash", "swelling">>

requiresLocation(symptom) ==
    \E i \in 1..Len(locationRequiredSymptoms) : Includes(symptom, locationRequiredSymptoms[i])

\* symptomDetails.find(s => s.name === primarySymptom): None for undefined.
FindByName(symptomDetails, primarySymptom) ==
    LET hits == SelectSeq(symptomDetails, LAMBDA s : s.name = primarySymptom) IN
    IF hits = <<>> THEN None ELSE Some(Head(hits))

NonEmptyList(field) == IsSome(field) /\ Val(field) # <<>>

identifyMissingInformation(primarySymptom, symptomDetails) ==
    LET primaryDetail == FindByName(symptomDetails, primarySymptom)
        hasAssociatedSymptoms ==
            \E i \in 1..Len(symptomDetails) : NonEmptyList(symptomDetails[i].associatedSymptoms)
    IN  (IF ~IsSome(primaryDetail) THEN <<"Primary symptom details">>
         ELSE (IF Val(primaryDetail).severity = 0
               THEN <<"Severity of primary symptom">> ELSE <<>>)
              \o (IF Val(primaryDetail).duration = ""
                  THEN <<"Duration of primary symptom">> ELSE <<>>)
              \o (IF Val(primaryDetail).location = "" /\ requiresLocation(primarySymptom)
                  THEN <<"Location of primary symptom">> ELSE <<>>)
              \o (IF Val(primaryDetail).frequency = ""
                  THEN <<"Frequency of primary symptom">> ELSE <<>>))
        \o (IF ~hasAssociatedSymptoms /\ Len(symptomDetails) < 3
            THEN <<"Associated symptoms">> ELSE <<>>)

Min(a, b) == IF a < b THEN a ELSE b

\* Fault seeding: the score taken from the last record of the complaint's
\* name, not the first.
calculateCompletenessOfLast(primarySymptom, symptomDetails) ==
    LET hits == SelectSeq(symptomDetails, LAMBDA s : s.name = primarySymptom) IN
    IF hits = <<>> THEN 0
    ELSE LET d == hits[Len(hits)] IN
         Min(100,
             (IF d.severity > 0 THEN 10 ELSE 0)
             + (IF d.duration # "" THEN 10 ELSE 0)
             + (IF d.location # "" \/ ~requiresLocation(primarySymptom) THEN 10 ELSE 0)
             + (IF d.frequency # "" THEN 10 ELSE 0)
             + (IF NonEmptyList(d.triggers) THEN 10 ELSE 0)
             + (IF NonEmptyList(d.associatedSymptoms) THEN 10 ELSE 0)
             + (IF d.onset # "" THEN 10 ELSE 0)
             + (IF Len(symptomDetails) > 1 THEN 20 ELSE 0)
             + (IF d.pattern # "" \/ IsSome(d.timing) THEN 10 ELSE 0))

calculateCompleteness(primarySymptom, symptomDetails) ==
    LET primaryDetail == FindByName(symptomDetails, primarySymptom) IN
    IF ~IsSome(primaryDetail) THEN 0
    ELSE LET d == Val(primaryDetail) IN
         Min(100,
             (IF d.severity > 0 THEN 10 ELSE 0)
             + (IF d.duration # "" THEN 10 ELSE 0)
             + (IF d.location # "" \/ ~requiresLocation(primarySymptom) THEN 10 ELSE 0)
             + (IF d.frequency # "" THEN 10 ELSE 0)
             + (IF NonEmptyList(d.triggers) THEN 10 ELSE 0)
             + (IF NonEmptyList(d.associatedSymptoms) THEN 10 ELSE 0)
             + (IF d.onset # "" THEN 10 ELSE 0)
             + (IF Len(symptomDetails) > 1 THEN 20 ELSE 0)
             + (IF d.pattern # "" \/ IsSome(d.timing) THEN 10 ELSE 0))

\* The result of analyzeSymptomProfile without bodySystemCoverage (the
\* Evidence of this model carries no bodySystems).
analyzeSymptomProfile(primarySymptom, symptomDetails) ==
    [completeness            |-> calculateCompleteness(primarySymptom, symptomDetails),
     criticalSymptomsChecked |-> checkCriticalSymptoms(symptomDetails),
     missingInformation      |-> identifyMissingInformation(primarySymptom, symptomDetails),
     redFlags                |-> checkRedFlags(symptomDetails),
     nextRecommendedQuestions |-> <<>>]

\* Evidence around the thresholds of the two rule tables.
ThresholdSeverities == {5, 6, 7, 8, 9, 10}

ThresholdRecords ==
    {FullDetail(n, v, "gradual", "") :
        n \in {"chest_pain", "shortness_of_breath", "fever"}, v \in ThresholdSeverities}
    \cup {FullDetail("headache", v, o, "") :
            v \in ThresholdSeverities, o \in {"sudden", "gradual"}}
    \cup {FullDetail("abdominal_pain", v, "gradual", l) :
            v \in ThresholdSeverities, l \in {"", "right_lower_quadrant", "epigastric"}}

ThresholdLists == UNION {[1..n -> ThresholdRecords] : n \in 0..MaxEvidence}

\* Evidence of the complaint's name with every field present or absent.
PrimaryRecords(primarySymptom) ==
    [name : {primarySymptom}, severity : {0, 5}, duration : {"", "2 days"},
     onset : {"", "gradual"}, location : {"", "forehead"},
     frequency : {"", "constant"}, timing : {None, Some(<<>>)},
     pattern : {"", "worse with movement"},
     triggers : {None, Some(<<>>), Some(<<"light">>)},
     associatedSymptoms : {None, Some(<<"nausea">>)}]

OtherRecord == FullDetail("nausea", 5, "gradual", "")

CompletenessLists(primarySymptom) ==
    {<<OtherRecord>>}
    \cup {<<r>> : r \in PrimaryRecords(primarySymptom)}
    \cup {<<r, OtherRecord>> : r \in PrimaryRecords(primarySymptom)}
    \cup {<<OtherRecord, r>> : r \in PrimaryRecords(primarySymptom)}
    \cup {<<FullDetail(primarySymptom, 0, "", ""), r>> : r \in PrimaryRecords(primarySymptom)}

ProfileInputs == {"headache", "fever", "chest_pain"}

AnalysisInit ==
    /\ ContainerInit
    /\ Mounted
    /\ adaptiveSystem = Some(NewAdaptiveDiagnosticSystem)
    /\ tracker = None
    /\ stopResult = None
    /\ lastCall = "none"
    /\ calls = 0
    /\ lastArg = None
    /\ lastError = None
    /\ retryOutcome = "none"
    /\ NoExtractorCall
    /\ profileArg \in ProfileInputs
    /\ symptomDetailsArg \in ThresholdLists \cup CompletenessLists(profileArg)
    /\ analysis = None
    /\ trackerCompleteness = None
    /\ NoCleanCall

CallAnalyzeSymptomProfile ==
    /\ calls < MaxCalls
    /\ analysis' = Some(analyzeSymptomProfile(profileArg, symptomDetailsArg))
    /\ lastCall' = "analyzeSymptomProfile"
    /\ lastArg' = None
    /\ calls' = calls + 1
    /\ UNCHANGED <<uiVars, adaptiveSystem, flowVars, netVars, restarts, turnAnalysis,
                   tracker, stopResult, retryVars, extractVars, profileArg,
                   symptomDetailsArg, trackerCompleteness, cleanVars>>

AnalysisNext == CallAnalyzeSymptomProfile

AnalysisSpec == AnalysisInit /\ [][AnalysisNext]_vars

(***************************************************************************)
(* The completeness score of the two engines, for an adaptive system and a *)
(* tracker constructed from one patient profile whose symptoms are a drawn *)
(* Evidence list.                                                          *)
(***************************************************************************)
\* DiagnosisTracker.getSymptomCompleteness on a profile with this primary
\* symptom and these symptoms.
getSymptomCompleteness(primarySymptom, symptoms) ==
    IF Len(symptoms) = 0 THEN 0
    ELSE LET primaryDetail == FindByName(symptoms, primarySymptom) IN
         IF ~IsSome(primaryDetail) THEN 0
         ELSE LET d == Val(primaryDetail) IN
              Min(100,
                  (IF d.severity > 0 THEN 10 ELSE 0)
                  + (IF d.duration # "" THEN 10 ELSE 0)
                  + (IF d.location # "" \/ requiresLocation(primarySymptom) THEN 10 ELSE 0)
                  + (IF d.frequency # "" THEN 10 ELSE 0)
                  + (IF NonEmptyList(d.triggers) THEN 10 ELSE 0)
                  + (IF NonEmptyList(d.associatedSymptoms) THEN 10 ELSE 0)
                  + (IF d.onset # "" THEN 10 ELSE 0)
                  + (IF Len(symptoms) > 1 THEN 20 ELSE 0)
                  + (IF d.pattern # "" \/ IsSome(d.timing) THEN 10 ELSE 0))

CompletenessInit ==
    /\ ContainerInit
    /\ Mounted
    /\ profileArg \in ProfileInputs
    /\ symptomDetailsArg \in {<<>>} \cup CompletenessLists(profileArg)
    /\ adaptiveSystem = Some([NewAdaptiveDiagnosticSystem EXCEPT !.symptoms = symptomDetailsArg])
    /\ tracker = Some([NewDiagnosisTracker EXCEPT !.symptoms = symptomDetailsArg])
    /\ stopResult = None
    /\ lastCall = "none"
    /\ calls = 0
    /\ lastArg = None
    /\ lastError = None
    /\ retryOutcome = "none"
    /\ NoExtractorCall
    /\ analysis = None
    /\ trackerCompleteness = None
    /\ NoCleanCall

CallGetSymptomCompleteness ==
    /\ IsSome(tracker) /\ calls < MaxCalls
    /\ trackerCompleteness' = Some(getSymptomCompleteness(profileArg, Val(tracker).symptoms))
    /\ lastCall' = "tracker.getSymptomCompleteness"
    /\ lastArg' = None
    /\ calls' = calls + 1
    /\ UNCHANGED <<uiVars, adaptiveSystem, flowVars, netVars, restarts, turnAnalysis,
                   tracker, stopResult, retryVars, extractVars, profileArg,
                   symptomDetailsArg, analysis, cleanVars>>

CompletenessNext ==
    \/ CallAnalyzeSymptomProfile
    \/ CallGetSymptomCompleteness

CompletenessSpec == CompletenessInit /\ [][CompletenessNext]_vars

(***************************************************************************)
(* validateAndCleanQuestion on its own.  A question text is a sequence of  *)
(* tokens: an ASCII word, one blank, one of the two question marks, or a   *)
(* Chinese word (written here by its code points).  A regular expression   *)
(* of compoundPatterns is the predicate on token sequences that it         *)
(* matches.                                                                *)
(***************************************************************************)
AsciiMark == "?"
FullWidthMark == "U+FF1F"
Blank == " "
ZhAnd == "U+548C"
ZhMa == "U+55CE"
ZhOr == "U+9084 U+662F"
ZhTime == "U+6642 U+9593"
ZhDegree == "U+5EA6 U+6578"
ZhFrequency == "U+983B U+7387"
ZhSeverity == "U+56B4 U+91CD U+7A0B U+5EA6"

IsMark(token) == token \in {AsciiMark, FullWidthMark}

\* Tokens made of \w characters only.
IsWord(token) ==
    token \in {"and", "or", "what", "when", "where", "how", "pain",
               "do", "you", "have", "fever", "chills"}

\* \b in front of the word at position i.
WordAt(question, i, word) ==
    /\ i \in 1..Len(question)
    /\ question[i] = word
    /\ (i = 1 \/ ~IsWord(question[i - 1]))

BlankAt(question, i) == i \in 1..Len(question) /\ question[i] = Blank

\* /\bWORD\s+.*\?$/i
WordThenMarkAtEnd(question, word) ==
    \E i \in 1..Len(question) :
        /\ WordAt(question, i, word)
        /\ BlankAt(question, i + 1)
        /\ Len(question) > i + 1
        /\ question[Len(question)] = AsciiMark

\* /\?\s+WORD\s+/i
MarkThenWord(question, word) ==
    \E i \in 1..Len(question), j \in 1..Len(question) :
        /\ question[i] = AsciiMark
        /\ j > i + 1
        /\ \A k \in (i + 1)..(j - 1) : question[k] = Blank
        /\ question[j] = word
        /\ BlankAt(question, j + 1)

\* /\bFIRST\s+.*\bSECOND\s+/i
WordThenWord(question, first, second) ==
    \E i \in 1..Len(question), j \in 1..Len(question) :
        /\ WordAt(question, i, first)
        /\ BlankAt(question, i + 1)
        /\ j >= i + 2
        /\ WordAt(question, j, second)
        /\ BlankAt(question, j + 1)

\* /FIRST.*?SECOND<full-width mark>$/i
ZhThenEnding(question, first, second) ==
    \E i \in 1..Len(question), j \in 1..Len(question) :
        /\ question[i] = first
        /\ j > i
        /\ question[j] = second
        /\ j + 1 = Len(question)
        /\ question[j + 1] = FullWidthMark

\* /WORD.*<full-width mark>$/i
ZhThenMarkAtEnd(question, word) ==
    \E i \in 1..Len(question) :
        /\ question[i] = word
        /\ i < Len(question)
        /\ question[Len(question)] = FullWidthMark

\* /<full-width mark>.*WORD/i
ZhMarkThen(question, word) ==
    \E i \in 1..Len(question), j \in 1..Len(question) :
        question[i] = FullWidthMark /\ j > i /\ question[j] = word

\* /.*FIRST.*<full-width mark>.*SECOND<full-width mark>/i
ZhTwoQuestions(question, first, second) ==
    \E i \in 1..Len(question), j \in 1..Len(question), k \in 1..Len(question) :
        /\ question[i] = first
        /\ j > i /\ question[j] = FullWidthMark
        /\ k > j /\ question[k] = second
        /\ k < Len(question) /\ question[k + 1] = FullWidthMark

\* Some pattern of compoundPatterns[language] (those of 'en' for a language
\* without an entry) matches.
MatchesCompoundPattern(question, language) ==
    IF language = "zh-TW"
    THEN \/ ZhThenEnding(question, ZhAnd, ZhMa)
         \/ ZhThenMarkAtEnd(question, ZhOr)
         \/ ZhMarkThen(question, ZhAnd)
         \/ ZhMarkThen(question, ZhOr)
         \/ ZhTwoQuestions(question, ZhTime, ZhDegree)
         \/ ZhTwoQuestions(question, ZhFrequency, ZhSeverity)
    ELSE \/ WordThenMarkAtEnd(question, "and")
         \/ WordThenMarkAtEnd(question, "or")
         \/ MarkThenWord(question, "and")
         \/ MarkThenWord(question, "or")
         \/ WordThenWord(question, "what", "when")
         \/ WordThenWord(question, "what", "where")
         \/ WordThenWord(question, "how", "what")
         \/ WordThenWord(question, "when", "how")

\* (question.match(/[?<full-width mark>]/g) || []).length
questionMarks(question) == Len(SelectSeq(question, IsMark))

\* question.split(/[?<full-width mark>]/)[0]
FirstPartOf(question) ==
    IF questionMarks(question) = 0 THEN question
    ELSE LET first == CHOOSE i \in 1..Len(question) :
                          IsMark(question[i]) /\ \A j \in 1..(i - 1) : ~IsMark(question[j])
         IN SubSeq(question, 1, first - 1)

RECURSIVE TrimStart(_)
TrimStart(text) ==
    IF text # <<>> /\ Head(text) = Blank THEN TrimStart(Tail(text)) ELSE text

RECURSIVE TrimEnd(_)
TrimEnd(text) ==
    IF text # <<>> /\ text[Len(text)] = Blank
    THEN TrimEnd(SubSeq(text, 1, Len(text) - 1)) ELSE text

Trim(text) == TrimEnd(TrimStart(text))

\* (parts[0] + (question.includes('?') ? '?' : '<full-width mark>')).trim()
SimplifiedTo(question) ==
    Trim(Append(FirstPartOf(question),
                IF \E i \in 1..Len(question) : question[i] = AsciiMark
                THEN AsciiMark ELSE FullWidthMark))

\* Fault seeding: the function without its check for multiple question
\* marks.
validateAndCleanQuestionCompoundOnly(question, language) ==
    IF question = <<>> THEN question
    ELSE IF MatchesCompoundPattern(question, language) /\ questionMarks(question) > 0
    THEN SimplifiedTo(question)
    ELSE question

validateAndCleanQuestion(question, language) ==
    IF question = <<>> THEN question
    ELSE IF MatchesCompoundPattern(question, language) /\ questionMarks(question) > 0
    THEN SimplifiedTo(question)
    ELSE IF questionMarks(question) > 1
    THEN SimplifiedTo(question)
    ELSE question

EnglishTokens == {AsciiMark, FullWidthMark, Blank, "and", "or", "what", "when", "pain"}
ChineseTokens == {AsciiMark, FullWidthMark, Blank, ZhAnd, ZhMa, ZhOr, ZhTime, ZhDegree}

Texts(tokens) == UNION {[1..n -> tokens] : n \in 0..MaxTokens}

\* 'Do you have fever and do you have chills?'
FeverAndChills ==
    <<"do", Blank, "you", Blank, "have", Blank, "fever", Blank, "and", Blank,
      "do", Blank, "you", Blank, "have", Blank, "chills", AsciiMark>>

ExampleQuestions == {FeverAndChills}

LanguageInputs == {"en", "zh-TW", "fr"}

CleanInit ==
    /\ ContainerInit
    /\ Mounted
    /\ adaptiveSystem = None
    /\ tracker = None
    /\ stopResult = None
    /\ lastCall = "none"
    /\ calls = 0
    /\ lastArg = None
    /\ lastError = None
    /\ retryOutcome = "none"
    /\ NoExtractorCall
    /\ NoAnalysisCall
    /\ languageArg \in LanguageInputs
    /\ questionArg \in Texts(IF languageArg = "zh-TW" THEN ChineseTokens ELSE EnglishTokens)
                       \cup ExampleQuestions
    /\ cleaned = None

CallValidateAndCleanQuestion ==
    /\ calls < MaxCalls
    /\ cleaned' = Some(validateAndCleanQuestion(questionArg, languageArg))
    /\ lastCall' = "validateAndCleanQuestion"
    /\ lastArg' = None
    /\ calls' = calls + 1
    /\ UNCHANGED <<uiVars, adaptiveSystem, flowVars, netVars, restarts, turnAnalysis,
                   tracker, stopResult, retryVars, extractVars, analysisVars,
                   questionArg, languageArg>>

CleanNext == CallValidateAndCleanQuestion

CleanSpec == CleanInit /\ [][CleanNext]_vars

(***************************************************************************)
(* Properties.                                                             *)
(***************************************************************************)
\* The Progress values held in a state: the engine's, the one of the engine
\* that a running performDiagnosis refers to, the copy the container shows,
\* and the tracker's.
HeldProgress ==
    {Val(o) : o \in {x \in {adaptiveSystem, staleSystem, diagnosticProgress, tracker} : IsSome(x)}}

\* C1: for every Progress value, shouldStop returns shouldStop = TRUE with
\* the reason of the first rule that holds, tried in the order
\* (1) currentConfidence >= targetConfidence, (2) totalQuestionsAsked >=
\* maxQuestions, (3) exactly one candidate and currentConfidence >= 75; it
\* returns shouldStop = FALSE and no reason when none holds.  (FunctionSpec)
C1_ShouldStopFirstRule ==
    lastCall = "shouldStop" =>
        LET p == Val(adaptiveSystem)
            r == Val(stopResult)
            StopsWith(text) ==
                r.shouldStop /\ IsSome(r.reason) /\ Val(r.reason).text = text
        IN IF p.currentConfidence >= p.targetConfidence
           THEN StopsWith("Target confidence reached")
           ELSE IF p.totalQuestionsAsked >= p.maxQuestions
           THEN StopsWith("Maximum questions reached")
           ELSE IF Len(p.possibleDiagnoses) = 1 /\ p.currentConfidence >= 75
           THEN StopsWith("Single high-confidence diagnosis")
           ELSE ~r.shouldStop /\ r.reason = None

\* The equality case 70/70 of the first rule, met by a call of shouldStop
\* (no other rule holds there).
C1_Witness ==
    /\ lastCall = "shouldStop"
    /\ Val(adaptiveSystem).currentConfidence = 70
    /\ Val(adaptiveSystem).targetConfidence = 70
    /\ Val(adaptiveSystem).totalQuestionsAsked = 0
    /\ Val(stopResult).shouldStop

\* The rule list of the strategy as claim C2 words it.
FirstMatchingStrategy(p) ==
    LET pd == p.possibleDiagnoses IN
    IF pd = <<>> THEN "completeness"
    ELSE IF pd[1].confidence > 70 /\ (Len(pd) = 1 \/ pd[1].confidence - pd[2].confidence > 20)
    THEN "confirmation"
    ELSE IF Len(pd) > 1 /\ pd[1].confidence - pd[2].confidence < 15
    THEN "discriminative"
    ELSE IF \/ \E i \in 1..Len(pd) : pd[i].urgency = "emergency"
            \/ \E i \in 1..Len(p.symptoms) : p.symptoms[i].severity >= 8
    THEN "red_flag_check"
    ELSE "completeness"

\* C2: whenever the strategy is computed (by the engine's
\* updateQuestionStrategy, alone or at the end of updateWithAIDiagnoses, and
\* by the tracker's in each operation that ends with
\* updateDiagnosticProgress), the result is the first match of: no
\* candidates -> completeness; top > 70 and (no second or gap > 20) ->
\* confirmation; a second and gap < 15 -> discriminative; an emergency
\* candidate or Evidence of severity >= 8 -> red_flag_check; otherwise
\* completeness.  (FunctionSpec)
C2_StrategyFirstMatch ==
    /\ lastCall \in {"updateQuestionStrategy", "updateWithAIDiagnoses"} =>
           Val(adaptiveSystem).nextQuestionStrategy
               = FirstMatchingStrategy(Val(adaptiveSystem))
    /\ lastCall \in {"DiagnosisTracker", "tracker.updateWithNewSymptom",
                     "tracker.updateWithAIDiagnoses"} =>
           Val(tracker).nextQuestionStrategy = FirstMatchingStrategy(Val(tracker))

\* The case the claim singles out: top > 70, a gap of 25, a candidate of
\* urgency emergency, and the computed strategy is confirmation.
C2_Witness ==
    /\ lastCall = "updateQuestionStrategy"
    /\ LET pd == Val(adaptiveSystem).possibleDiagnoses IN
       /\ Len(pd) = 2
       /\ pd[1].confidence - pd[2].confidence = 25
       /\ pd[2].urgency = "emergency"
       /\ Val(adaptiveSystem).nextQuestionStrategy = "confirmation"

\* C3: in every reachable state every candidate list held in a Progress is
\* sorted by confidence, descending, whatever order the Oracle returned the
\* diagnoses in.  (Spec)
C3_CandidatesSortedDescending ==
    \A p \in HeldProgress : IsSortedDesc(p.possibleDiagnoses)

\* The engine holds the two candidates of a response that ranked the less
\* likely diagnosis first.
C3_Witness ==
    /\ IsSome(adaptiveSystem)
    /\ Val(adaptiveSystem).possibleDiagnoses
           = <<>> \o SortDesc(MapDiagnoses(<<DiagSinusitis, DiagTension>>))
    /\ Val(adaptiveSystem).possibleDiagnoses[1].name = DiagTension.condition

\* C4: in every reachable state the currentConfidence of a Progress is the
\* confidence of the first candidate of the list held in the same Progress,
\* and 0 when that list is empty.  (Spec)
C4_ConfidenceMirrorsTopCandidate ==
    \A p \in HeldProgress : p.currentConfidence = TopConfidence(p.possibleDiagnoses)

\* C5: in every reachable state the engine's totalQuestionsAsked is the
\* number of answers whose extraction yielded Evidence (each such answer
\* appends one Evidence record to the profile, and nothing else does).
\* (Spec)
C5_QuestionsAskedCountsEvidence ==
    IsSome(adaptiveSystem) =>
        Val(adaptiveSystem).totalQuestionsAsked = Len(Val(adaptiveSystem).symptoms)

\* C6: once maxQuestions (20) questions have been answered the questioning
\* has ended: no further question is put to the user.  (BudgetSpec)
C6_BudgetEndsQuestioning ==
    Len(questionAnswers) >= 20 => ~IsSome(currentQuestion)

\* C7: at every moment at most one Oracle request of the session is
\* outstanding, counting an attempt that timed out and is being retried.
\* (Spec)
C7_AtMostOneOutstanding ==
    Outstanding <= 1

\* C8: while the Oracle round-trip of a flow is in flight, no step records
\* an answer or starts a turn with another answer: the recorded answers do
\* not grow, and the answer of the running flow stays until the flow ends.
\* (Spec)
C8_NoAnswerProcessedInFlight ==
    [][pc # "idle" =>
          /\ Len(questionAnswers') <= Len(questionAnswers)
          /\ lastAnswer' = lastAnswer \/ pc' = "idle"]_vars

\* A turn is in flight with its answer recorded, and the question card is
\* not what the container shows.
C8_Witness ==
    /\ flowKind = "turn"
    /\ pc = "turn_analyze"
    /\ Len(questionAnswers) = 1
    /\ View = "loading"

\* C9: when the diagnosis request of a turn fails, no exception leaves
\* updateWithRealTimeAnalysis, and from that update until the next refresh
\* of the candidates the engine's candidate list is empty and its
\* currentConfidence is 0.  (Spec)
C9_FailedAnalysisDegrades ==
    /\ turnAnalysis # "escaped"
    /\ turnAnalysis = "failed" =>
           /\ Val(adaptiveSystem).possibleDiagnoses = <<>>
           /\ Val(adaptiveSystem).currentConfidence = 0

\* The diagnosis request of a turn failed in a session whose engine held
\* candidates before (the container still shows them).
C9_Witness ==
    /\ turnAnalysis = "failed"
    /\ IsSome(diagnosticProgress)
    /\ Len(Val(diagnosticProgress).possibleDiagnoses) > 0
    /\ Val(diagnosticProgress).currentConfidence > 0

\* C10: when the flow of an answered turn has ended, either a next question
\* is presented or the session is in results with a guidance payload that
\* is not null.  (Spec)
C10_TurnEndsInQuestionOrResults ==
    (pc = "idle" /\ Len(questionAnswers) > 0) =>
        \/ step = "dynamic-questions" /\ IsSome(currentQuestion)
        \/ step = "results" /\ IsSome(guidance)

\* The question requests of the two flows.
QuestionRequests == {"first_question", "turn_question"}

\* A step in which generateNextQuestionWithAdaptiveSystem ran its stop check:
\* the continuation of an analysis request, or the answer of a turn that
\* needs no analysis.
StopCheckRan ==
    \/ pc \in {"first_analyze", "turn_analyze"} /\ pc' # pc
    \/ pc = "idle" /\ pc' \in {"turn_question", "diag_analyze"}

\* C11: a next-question request is in flight only while shouldStop of the
\* session's engine answers FALSE; and a step that runs the stop check sends
\* the next-question request when the answer is FALSE, and when it is TRUE
\* sends no such request, puts no new question on the card and starts
\* performDiagnosis (the final diagnosis request, followed by guidance).
\* (Spec)
C11_QuestionOnlyWhenNotStopped ==
    /\ [](pc \in QuestionRequests => ~shouldStop(Val(adaptiveSystem)).shouldStop)
    /\ [][(StopCheckRan /\ IsSome(adaptiveSystem')) =>
             IF shouldStop(Val(adaptiveSystem')).shouldStop
             THEN pc' = "diag_analyze" /\ currentQuestion' \in {None, currentQuestion}
             ELSE pc' \in QuestionRequests]_vars

\* A turn whose stop check answered TRUE: the final diagnosis is requested,
\* with the answer recorded and no question on the card.
C11_Witness ==
    /\ flowKind = "turn"
    /\ pc = "diag_analyze"
    /\ Len(questionAnswers) = 1
    /\ shouldStop(Val(adaptiveSystem)).shouldStop
    /\ ~IsSome(currentQuestion)

\* C12: in a turn the Evidence of the answer is appended before the
\* candidates are refreshed and the strategy is recomputed, so once the stop
\* check of a turn has run (after a refresh that succeeded), the strategy on
\* Progress is the one the rules give for the Evidence list and candidate
\* list that include the turn's answer.  (Spec)
C12_StrategyIncludesTurnAnswer ==
    (flowKind = "turn" /\ turnAnalysis = "ok" /\ pc \in {"turn_question", "diag_analyze"}) =>
        Val(adaptiveSystem).nextQuestionStrategy = selectStrategy(Val(adaptiveSystem))

\* C13: in every state of a session, from the creation of its engine on, the
\* strategy stored on the engine's Progress is the one the rules give for
\* the current candidate list and Evidence list; with no candidates it is
\* completeness.  (Spec)
C13_StoredStrategyIsCurrent ==
    IsSome(adaptiveSystem) =>
        /\ Val(adaptiveSystem).nextQuestionStrategy = FirstMatchingStrategy(Val(adaptiveSystem))
        /\ Val(adaptiveSystem).possibleDiagnoses = <<>> =>
               Val(adaptiveSystem).nextQuestionStrategy = "completeness"

\* C14 as stated: when withRetry has ended on an authentication error, the
\* Oracle has been called exactly once for that request.  (RetrySpec)
C14_AuthFailureCalledOnce ==
    (retryOutcome = "thrown" /\ lastError = Some("auth")) => attempt = 1

\* C14, amended: when an attempt of withRetry fails with an authentication
\* error, no further attempt is made and the failure is thrown: the
\* invocation has ended by throwing, nothing is in flight or scheduled, and
\* the Oracle has been called once per attempt up to the refused one (once
\* when the first attempt is the refused one).  (RetrySpec)
C14_NoAttemptAfterAuthFailure ==
    /\ [](lastError = Some("auth") => (retryOutcome = "thrown" /\ phase = "none"))
    /\ [][(lastError = Some("auth") /\ lastError' = lastError) =>
             (attempt' = attempt /\ phase' = "none")]_vars

\* The first attempt was refused and withRetry has thrown after one call.
C14_Witness ==
    /\ lastError = Some("auth")
    /\ retryOutcome = "thrown"
    /\ attempt = 1

\* C15: once a request of a flow has ended on an authentication error, the
\* flow is aborted: no further Oracle request (analysis, guidance or next
\* question) is awaited or retried as part of that flow.
C15_AuthFailureAbortsFlow ==
    authFailed => (pc = "idle" /\ phase = "none")

\* C16: the Evidence list of an engine object is its own: a call that
\* appends Evidence through the adaptive system leaves the list seen through
\* the tracker unchanged, and a call that appends through the tracker leaves
\* the list seen through the adaptive system unchanged.
C16_EvidenceNotShared ==
    [][(IsSome(adaptiveSystem) /\ IsSome(tracker)) =>
          /\ lastCall' = "updateDiagnosis" =>
                 Val(tracker').symptoms = Val(tracker).symptoms
          /\ lastCall' = "tracker.updateWithNewSymptom" =>
                 Val(adaptiveSystem').symptoms = Val(adaptiveSystem).symptoms]_vars

\* C18: every snapshot in persistent storage is plain data: it has no
\* adaptiveSystem field and every field it has is one of step, dataStep,
\* currentQuestion, questionCount, questionHistory, questionAnswers,
\* diagnoses, guidance and diagnosticProgress.
C18_SnapshotHasNoEngine ==
    IsSome(storage) =>
        /\ "adaptiveSystem" \notin DOMAIN Val(storage)
        /\ DOMAIN Val(storage) \subseteq
               {"step", "dataStep", "currentQuestion", "questionCount",
                "questionHistory", "questionAnswers", "diagnoses", "guidance",
                "diagnosticProgress"}

\* A snapshot written while the container holds an engine instance.
C18_Witness ==
    /\ IsSome(adaptiveSystem)
    /\ IsSome(storage)
    /\ Val(storage).step = "dynamic-questions"
    /\ Val(storage).questionCount = 1
    /\ "diagnosticProgress" \in DOMAIN Val(storage)

\* C17: a restart of the application resumes from the last persisted
\* snapshot: after the new mount, the step, the question history, the
\* collected answers and the Progress are the persisted ones.
C17_ResumeRestoresSnapshot ==
    [][(Reload /\ IsSome(storage)) =>
          /\ step' = Val(storage).step
          /\ questionHistory' = Val(storage).questionHistory
          /\ questionAnswers' = Val(storage).questionAnswers
          /\ "diagnosticProgress" \in DOMAIN Val(storage) =>
                 diagnosticProgress' = Some(Val(storage).diagnosticProgress)]_vars

\* C19: where currentConfidence < targetConfidence, totalQuestionsAsked <
\* maxQuestions and two or more candidates are held, neither stop predicate
\* answers 'stop': shouldStop of the adaptive system returns shouldStop =
\* FALSE and shouldStopQuestioning of the tracker returns FALSE, whatever the
\* urgency of the candidates.
NoCriterionMet(p) ==
    /\ p.currentConfidence < p.targetConfidence
    /\ p.totalQuestionsAsked < p.maxQuestions
    /\ Len(p.possibleDiagnoses) >= 2

C19_StopOnlyOnCriteria ==
    /\ (IsSome(adaptiveSystem) /\ NoCriterionMet(Val(adaptiveSystem))) =>
           ~shouldStop(Val(adaptiveSystem)).shouldStop
    /\ (IsSome(tracker) /\ NoCriterionMet(Val(tracker))) =>
           ~shouldStopQuestioning(Val(tracker))

\* C20: every candidate of the Progress a session holds (the engine's and
\* the copy the container shows) has the likelihood that
\* getConfidenceCategory gives for its confidence: very_low below 20, low
\* below 40, moderate below 60, high below 80, very_high from 80.
C20_LikelihoodIsBucketOfConfidence ==
    \A o \in {adaptiveSystem, diagnosticProgress} :
        IsSome(o) =>
            \A i \in 1..Len(Val(o).possibleDiagnoses) :
                Val(o).possibleDiagnoses[i].likelihood =
                    getConfidenceCategory(Val(o).possibleDiagnoses[i].confidence)

\* C21: after updateWithAIDiagnoses(L), of the adaptive system or of the
\* tracker, the candidate list holds exactly one candidate per element of L,
\* with that element's name and confidence, and nothing else: nothing of an
\* earlier list is kept, and an empty L leaves an empty list.
OneCandidatePerDiagnosis(possibleDiagnoses, aiDiagnoses) ==
    /\ Len(possibleDiagnoses) = Len(aiDiagnoses)
    /\ \E f \in [1..Len(aiDiagnoses) -> 1..Len(aiDiagnoses)] :
           /\ \A i, j \in 1..Len(aiDiagnoses) : f[i] = f[j] => i = j
           /\ \A i \in 1..Len(aiDiagnoses) :
                  /\ possibleDiagnoses[f[i]].name = aiDiagnoses[i].condition
                  /\ possibleDiagnoses[f[i]].confidence = aiDiagnoses[i].probability

C21_UpdateReplacesCandidates ==
    /\ lastCall = "updateWithAIDiagnoses" =>
           OneCandidatePerDiagnosis(Val(adaptiveSystem).possibleDiagnoses, Val(lastArg))
    /\ lastCall = "tracker.updateWithAIDiagnoses" =>
           OneCandidatePerDiagnosis(Val(tracker).possibleDiagnoses, Val(lastArg))

\* The second call on an engine is an update with one diagnosis.
C21_Witness ==
    /\ lastCall = "updateWithAIDiagnoses"
    /\ calls >= 2
    /\ lastArg = Some(<<DiagTension>>)
    /\ Len(Val(adaptiveSystem).possibleDiagnoses) = 1

\* C22: with Oracle probabilities in 0..100, every confidence a session
\* holds lies in 0..100: the currentConfidence of each Progress and the
\* confidence of each candidate, those computed by the session included.
C22_ConfidencesInRange ==
    \A p \in HeldProgress :
        /\ p.currentConfidence \in 0..100
        /\ \A i \in 1..Len(p.possibleDiagnoses) : p.possibleDiagnoses[i].confidence \in 0..100

\* C23: the Evidence list of an engine object only grows at its end: across
\* every step in which the object lives on, the list before the step is a
\* prefix of the list after it.
IsPrefix(s, t) ==
    Len(s) <= Len(t) /\ \A i \in 1..Len(s) : s[i] = t[i]

C23_EvidenceAppendOnly ==
    [][/\ (IsSome(adaptiveSystem) /\ IsSome(adaptiveSystem')) =>
              IsPrefix(Val(adaptiveSystem).symptoms, Val(adaptiveSystem').symptoms)
       /\ (IsSome(tracker) /\ IsSome(tracker')) =>
              IsPrefix(Val(tracker).symptoms, Val(tracker').symptoms)]_vars

\* Two records for the same name, the second appended after the first.
C23_Witness ==
    /\ IsSome(adaptiveSystem)
    /\ Len(Val(adaptiveSystem).symptoms) = 2
    /\ Val(adaptiveSystem).symptoms[1].name = Val(adaptiveSystem).symptoms[2].name
    /\ Val(adaptiveSystem).symptoms[1] # Val(adaptiveSystem).symptoms[2]
    /\ lastCall = "updateDiagnosis"

\* C24: for an answer the card lets a user submit (a non-empty text or a
\* number of the 0-10 scale) and a non-empty question history, either
\* convertAnswerToSymptomDetail returns an Evidence record, not null.
CanBeSubmitted(answer) ==
    IsSome(answer) /\ (Val(answer).t = "num" \/ Val(answer).s # "")

C24_ExtractorReturnsEvidence ==
    (/\ lastCall \in {"convertAnswerToSymptomDetail",
                      "DiagnosisContainer.convertAnswerToSymptomDetail"}
     /\ CanBeSubmitted(answerArg)
     /\ historyArg # <<>>)
        => IsSome(Val(extracted))

\* C25: an extractor call that returns Evidence classifies by the text of
\* the last asked question, first match in this order: 'severity', 'scale'
\* or '1-10' gives the primary complaint with the severity of the answer (5
\* when the answer is no number); 'how long' or 'duration' gives it with the
\* answer as duration; 'where' or 'location' gives it with the answer as
\* location; otherwise an answer with a vocabulary keyword gives Evidence
\* named after such a keyword with severity 5; otherwise the primary
\* complaint with the raw answer as associated symptom.
SeverityInAnswer(answer) ==
    IF answer.t = "num" THEN answer.n
    ELSE IF IsSome(parseInt(answer.s)) THEN Val(parseInt(answer.s)) ELSE 5

ClassifiedAsSpecified(answer, lastQuestion, evidence) ==
    IF Includes(lastQuestion, "severity") \/ Includes(lastQuestion, "scale")
       \/ Includes(lastQuestion, "1-10")
    THEN evidence.name = PrimarySymptom /\ evidence.severity = SeverityInAnswer(answer)
    ELSE IF Includes(lastQuestion, "how long") \/ Includes(lastQuestion, "duration")
    THEN evidence.name = PrimarySymptom /\ evidence.duration = TextOf(answer)
    ELSE IF Includes(lastQuestion, "where") \/ Includes(lastQuestion, "location")
    THEN evidence.name = PrimarySymptom /\ evidence.location = TextOf(answer)
    ELSE IF \E i \in 1..Len(commonSymptoms) : Includes(TextOf(answer), commonSymptoms[i])
    THEN /\ Includes(TextOf(answer), evidence.name)
         /\ \E i \in 1..Len(commonSymptoms) : evidence.name = commonSymptoms[i]
         /\ evidence.severity = 5
    ELSE /\ evidence.name = PrimarySymptom
         /\ evidence.associatedSymptoms = IF answer.t = "str" THEN <<answer.s>> ELSE <<>>

C25_ExtractorClassifiesByQuestion ==
    (/\ lastCall \in {"convertAnswerToSymptomDetail",
                      "DiagnosisContainer.convertAnswerToSymptomDetail"}
     /\ IsSome(Val(extracted)))
        => ClassifiedAsSpecified(Val(answerArg), historyArg[Len(historyArg)],
                                 Val(Val(extracted)))

\* C26: processing one answer adds at most one Evidence record to the
\* Evidence list seen through an engine object, and when the answer text
\* has several vocabulary keywords and no rule on the question applies, the
\* record the extractor returns is named after the first of them in
\* vocabulary order.
FirstKeywordIn(text) ==
    LET found == {i \in 1..Len(commonSymptoms) : Includes(text, commonSymptoms[i])}
    IN commonSymptoms[CHOOSE i \in found : \A j \in found : i <= j]

NoQuestionRule(lastQuestion) ==
    \A k \in {"severity", "scale", "1-10", "how long", "duration", "where", "location"} :
        ~Includes(lastQuestion, k)

FirstKeywordNamed ==
    (/\ lastCall = "convertAnswerToSymptomDetail"
     /\ IsSome(Val(extracted))
     /\ NoQuestionRule(historyArg[Len(historyArg)])
     /\ \E i \in 1..Len(commonSymptoms) :
            Includes(TextOf(Val(answerArg)), commonSymptoms[i]))
        => Val(Val(extracted)).name = FirstKeywordIn(TextOf(Val(answerArg)))

C26_OneEvidencePerAnswer ==
    [][/\ (IsSome(adaptiveSystem) /\ IsSome(adaptiveSystem') /\ calls' = calls + 1) =>
              Len(Val(adaptiveSystem').symptoms) <= Len(Val(adaptiveSystem).symptoms) + 1
       /\ (IsSome(tracker) /\ IsSome(tracker') /\ calls' = calls + 1) =>
              Len(Val(tracker').symptoms) <= Len(Val(tracker).symptoms) + 1
       /\ FirstKeywordNamed']_vars

\* C27: every Evidence record in an engine's Evidence list has a severity
\* in 0..10, whatever the user answered to a severity question, as a number
\* or as text.
C27_SeverityInRange ==
    \A o \in {adaptiveSystem, tracker} :
        IsSome(o) =>
            \A i \in 1..Len(Val(o).symptoms) : Val(o).symptoms[i].severity \in 0..10

\* The texts of the rules of a table that apply, in the table's order; a
\* rule is a pair of its condition and its text.
Entries(rules) ==
    LET hit == SelectSeq(rules, LAMBDA rule : rule[1]) IN
    [i \in 1..Len(hit) |-> hit[i][2]]

CriticalRules(r) ==
    << <<r.severity >= 8,
         "High severity " \o r.name \o " (" \o ToString(r.severity) \o "/10)">>,
       <<r.name = "chest_pain" /\ r.severity >= 6, "Moderate to severe chest pain">>,
       <<r.name = "shortness_of_breath" /\ r.severity >= 6,
         "Moderate to severe shortness of breath">>,
       <<r.name = "headache" /\ r.onset = "sudden" /\ r.severity >= 8,
         "Sudden severe headache">> >>

RedFlagRules(r) ==
    << <<r.name = "chest_pain" /\ r.severity >= 7,
         "Severe chest pain - possible cardiac emergency">>,
       <<r.name = "shortness_of_breath" /\ r.severity >= 8,
         "Severe shortness of breath - possible respiratory emergency">>,
       <<r.name = "headache" /\ r.onset = "sudden" /\ r.severity >= 9,
         "Thunderclap headache - possible subarachnoid hemorrhage">>,
       <<r.name = "abdominal_pain" /\ r.location = "right_lower_quadrant",
         "Right lower quadrant pain - possible appendicitis">>,
       <<r.severity >= 9, "Severe " \o r.name \o " (9-10/10)">> >>

RECURSIVE TableOver(_, _)
TableOver(rulesOf(_), list) ==
    IF list = <<>> THEN <<>>
    ELSE TableOver(rulesOf, SubSeq(list, 1, Len(list) - 1))
         \o Entries(rulesOf(list[Len(list)]))

Contains(list, text) == \E i \in 1..Len(list) : list[i] = text

ChestPainNine == <<FullDetail("chest_pain", 9, "gradual", "")>>

\* C28: the critical list and the redFlags list that analyzeSymptomProfile
\* returns are exactly the entries of the rule tables (inclusive thresholds)
\* applied to each Evidence record in list order; for the single record
\* chest_pain of severity 9, critical holds 'High severity chest_pain (9/10)'
\* and 'Moderate to severe chest pain' and redFlags holds the
\* cardiac-emergency entry.
C28_RuleTables ==
    IsSome(analysis) =>
        /\ Val(analysis).criticalSymptomsChecked = TableOver(CriticalRules, symptomDetailsArg)
        /\ Val(analysis).redFlags = TableOver(RedFlagRules, symptomDetailsArg)
        /\ symptomDetailsArg = ChestPainNine =>
               /\ Contains(Val(analysis).criticalSymptomsChecked,
                           "High severity chest_pain (9/10)")
               /\ Contains(Val(analysis).criticalSymptomsChecked,
                           "Moderate to severe chest pain")
               /\ Contains(Val(analysis).redFlags,
                           "Severe chest pain - possible cardiac emergency")

\* A state after the call on a two-record list whose first record sits on
\* the inclusive threshold 8 and whose second is chest_pain of severity 9.
C28_Witness ==
    /\ IsSome(analysis)
    /\ symptomDetailsArg = <<FullDetail("headache", 8, "sudden", ""),
                             FullDetail("chest_pain", 9, "gradual", "")>>
    /\ Val(analysis).criticalSymptomsChecked =
           <<"High severity headache (8/10)", "Sudden severe headache",
             "High severity chest_pain (9/10)", "Moderate to severe chest pain">>
    /\ Val(analysis).redFlags =
           <<"Severe chest pain - possible cardiac emergency",
             "Severe chest_pain (9-10/10)">>

Points(condition, points) == IF condition THEN points ELSE 0

\* The least index of a record of the given name.
FirstIndexNamed(list, name) ==
    CHOOSE i \in 1..Len(list) :
        /\ list[i].name = name
        /\ \A j \in 1..(i - 1) : list[j].name # name

LocationNotRequired(name) ==
    name \notin {"headache", "chest_pain", "abdominal_pain", "rash", "swelling"}
    /\ ~Includes(name, "pain")

FeverAlone ==
    <<[name |-> "fever", severity |-> 5, duration |-> "2 days", onset |-> "gradual",
       location |-> "", frequency |-> "", timing |-> None, pattern |-> "",
       triggers |-> None, associatedSymptoms |-> Some(<<"nausea">>)]>>

\* C29: the completeness score is 0 when no Evidence record has the primary
\* complaint's name; otherwise it is the sum, capped at 100, over the first
\* such record of +10 for severity > 0, a duration, a location (or a
\* complaint that needs none), a frequency, non-empty triggers, non-empty
\* associated symptoms, an onset, a pattern or timing, and +20 for a list of
\* more than one record.  A fever record of severity 5, duration '2 days',
\* one associated symptom and an onset, alone in the list, scores 50.
C29_CompletenessScore ==
    IsSome(analysis) =>
        /\ IF \A i \in 1..Len(symptomDetailsArg) : symptomDetailsArg[i].name # profileArg
           THEN Val(analysis).completeness = 0
           ELSE LET d == symptomDetailsArg[FirstIndexNamed(symptomDetailsArg, profileArg)]
                    sum == Points(d.severity > 0, 10)
                           + Points(d.duration # "", 10)
                           + Points(d.location # "" \/ LocationNotRequired(profileArg), 10)
                           + Points(d.frequency # "", 10)
                           + Points(IsSome(d.triggers) /\ Len(Val(d.triggers)) > 0, 10)
                           + Points(IsSome(d.associatedSymptoms)
                                    /\ Len(Val(d.associatedSymptoms)) > 0, 10)
                           + Points(d.onset # "", 10)
                           + Points(Len(symptomDetailsArg) > 1, 20)
                           + Points(d.pattern # "" \/ IsSome(d.timing), 10)
                IN Val(analysis).completeness = (IF sum > 100 THEN 100 ELSE sum)
        /\ (profileArg = "fever" /\ symptomDetailsArg = FeverAlone)
               => Val(analysis).completeness = 50

\* A state after the call on a two-record list whose two records both have
\* the complaint's name and score differently: the first one is scored.
C29_Witness ==
    /\ IsSome(analysis)
    /\ profileArg = "headache"
    /\ Len(symptomDetailsArg) = 2
    /\ symptomDetailsArg[1] = FullDetail("headache", 0, "", "")
    /\ symptomDetailsArg[2].name = "headache"
    /\ symptomDetailsArg[2].severity = 5
    /\ symptomDetailsArg[2].location = "forehead"
    /\ Val(analysis).completeness = 20

\* A state after the call on the fever record of the example.
C29_ExampleReached ==
    /\ IsSome(analysis)
    /\ profileArg = "fever"
    /\ symptomDetailsArg = FeverAlone
    /\ Val(analysis).completeness = 50

\* C30: for every question text with at least one question mark (ASCII or
\* full-width), in either language, validateAndCleanQuestion returns a text
\* with exactly one question mark; and the text returned is not empty when
\* the input was not.
C30_OneQuestionMark ==
    IsSome(cleaned) =>
        /\ (\E i \in 1..Len(questionArg) : IsMark(questionArg[i]))
               => Cardinality({i \in 1..Len(Val(cleaned)) : IsMark(Val(cleaned)[i])}) = 1
        /\ questionArg # <<>> => Val(cleaned) # <<>>

\* A state after the call on a text with two question marks that no compound
\* pattern matches: the text up to the first mark is returned.
C30_Witness ==
    /\ IsSome(cleaned)
    /\ languageArg = "en"
    /\ questionArg = <<"pain", FullWidthMark, "pain", AsciiMark>>
    /\ Val(cleaned) = <<"pain", AsciiMark>>

\* The text in front of the first conjunction word of a question.
FirstClause(question) ==
    LET at == {i \in 1..Len(question) :
                  WordAt(question, i, "and") \/ WordAt(question, i, "or")} IN
    IF at = {} THEN question
    ELSE SubSeq(question, 1, (CHOOSE i \in at : \A j \in at : i <= j) - 1)

\* C31: a question that matches a conjunction-before-question-mark pattern
\* comes back as its first clause followed by one question mark, so that the
\* clause after the conjunction is not part of the output; for 'Do you have
\* fever and do you have chills?' the output is 'Do you have fever?'.
C31_FirstClauseOnly ==
    (/\ IsSome(cleaned)
     /\ languageArg # "zh-TW"
     /\ WordThenMarkAtEnd(questionArg, "and") \/ WordThenMarkAtEnd(questionArg, "or"))
        => Val(cleaned) = Append(Trim(FirstClause(questionArg)), AsciiMark)

\* The probabilities that occur in the diagnosis responses of the Oracle.
OracleProbabilities ==
    UNION {{response[i].probability : i \in 1..Len(response)} : response \in DiagLists}

\* C32: the session never fabricates candidate data: every probability in
\* the diagnosis list shown in the results, and every candidate confidence
\* held by the session's engine or by the Progress it shows, is a probability
\* of an Oracle diagnosis response; a request that fails yields no candidate
\* with an invented probability.
C32_NoFabricatedCandidates ==
    /\ \A i \in 1..Len(diagnoses) : diagnoses[i].probability \in OracleProbabilities
    /\ \A held \in {x \in {adaptiveSystem, staleSystem, diagnosticProgress} : IsSome(x)} :
           \A i \in 1..Len(Val(held).possibleDiagnoses) :
               Val(held).possibleDiagnoses[i].confidence \in OracleProbabilities

\* C33: totalQuestionsAsked is 0 in an engine or tracker that has just been
\* constructed, and no operation on an engine or tracker makes it smaller.
C33_QuestionCounterMonotonic ==
    [][/\ lastCall' = "AdaptiveDiagnosticSystem"
           => Val(adaptiveSystem').totalQuestionsAsked = 0
       /\ lastCall' = "DiagnosisTracker"
           => Val(tracker').totalQuestionsAsked = 0
       /\ (IsSome(adaptiveSystem) /\ IsSome(adaptiveSystem'))
           => Val(adaptiveSystem').totalQuestionsAsked
                  >= Val(adaptiveSystem).totalQuestionsAsked
       /\ (IsSome(tracker) /\ IsSome(tracker'))
           => Val(tracker').totalQuestionsAsked >= Val(tracker).totalQuestionsAsked]_vars

\* A tracker built by its constructor that has counted one question and has
\* then been given an empty diagnosis list: the counter is still 1.
C33_Witness ==
    /\ IsSome(tracker)
    /\ lastCall = "tracker.updateWithAIDiagnoses"
    /\ lastArg = Some(<<>>)
    /\ Val(tracker).totalQuestionsAsked = 1
    /\ Val(tracker).possibleDiagnoses = <<>>

\* An engine built by its constructor whose counter has grown to 2.
C33_EngineCounted ==
    /\ IsSome(adaptiveSystem)
    /\ calls = 3
    /\ Val(adaptiveSystem).totalQuestionsAsked = 2
    /\ Val(adaptiveSystem).symptoms # <<>>

\* C34: a newly created session has the default Progress (no question asked,
\* at most 20 questions, confidence 0, target confidence 70, no candidate):
\* an engine or a tracker that has just been constructed starts with the
\* defaults of createInitialDiagnosticProgress.
C34_DefaultProgress ==
    /\ lastCall = "AdaptiveDiagnosticSystem"
           => ProgressOf(Val(adaptiveSystem)) = createInitialDiagnosticProgress
    /\ lastCall = "DiagnosisTracker"
           => ProgressOf(Val(tracker)) = createInitialDiagnosticProgress

\* The urgency mapping as the specification tabulates it.
UrgencyTable(urgencyLevel) ==
    IF urgencyLevel = "emergency" THEN "emergency"
    ELSE IF urgencyLevel = "urgent" THEN "high"
    ELSE IF urgencyLevel = "self_care" THEN "low"
    ELSE "moderate"

UrgenciesAsTabulated(possibleDiagnoses, aiDiagnoses) ==
    /\ \A i \in 1..Len(possibleDiagnoses) :
           \E j \in 1..Len(aiDiagnoses) :
               /\ aiDiagnoses[j].condition = possibleDiagnoses[i].name
               /\ aiDiagnoses[j].probability = possibleDiagnoses[i].confidence
               /\ possibleDiagnoses[i].urgency = UrgencyTable(aiDiagnoses[j].urgencyLevel)
    /\ \A j \in 1..Len(aiDiagnoses) :
           \E i \in 1..Len(possibleDiagnoses) :
               /\ aiDiagnoses[j].condition = possibleDiagnoses[i].name
               /\ possibleDiagnoses[i].urgency = UrgencyTable(aiDiagnoses[j].urgencyLevel)

C35_TrackerSelfCare ==
    /\ lastCall = "tracker.updateWithAIDiagnoses"
    /\ lastArg = Some(<<Diagnosis("Common cold", 30, "self_care")>>)
    /\ Val(tracker).possibleDiagnoses[1].urgency = "low"

\* C36: discarding a session is complete.  Once the container is back on
\* the welcome step, only the user's start leaves it, and no question,
\* diagnosis list, guidance, error or Progress of the discarded session is
\* in the state, whatever a request that was in flight at the restart
\* delivers afterwards.
C36_RestartDiscardsSession ==
    [][/\ step = "welcome" => step' \in {"welcome", "symptom-collection"}
       /\ step' = "welcome" =>
              /\ currentQuestion' = None
              /\ diagnoses' = <<>>
              /\ guidance' = None
              /\ error' = None
              /\ diagnosticProgress' = None]_vars

\* C37: when a turn has ended with a question on the card, the Progress
\* handed to the presentation layer agrees with the Progress of the engine:
\* the same candidates in the same order, the same current confidence, the
\* same number of questions asked and the same strategy.  (Sessions that were
\* never restarted.)
C37_ShownProgressIsEngineProgress ==
    (/\ restarts = 0
     /\ pc = "idle"
     /\ step = "dynamic-questions"
     /\ IsSome(currentQuestion)
     /\ IsSome(adaptiveSystem)
     /\ IsSome(diagnosticProgress))
        => LET shown == Val(diagnosticProgress)
               engine == Val(adaptiveSystem)
           IN /\ shown.possibleDiagnoses = engine.possibleDiagnoses
              /\ shown.currentConfidence = engine.currentConfidence
              /\ shown.totalQuestionsAsked = engine.totalQuestionsAsked
              /\ shown.nextQuestionStrategy = engine.nextQuestionStrategy

\* C38: withRetry always terminates.  It makes at most MAX_RETRIES attempts;
\* it returns on an attempt that succeeded and makes no attempt after that;
\* it throws, with the error of the last failed attempt, when the last
\* attempt failed (or an authentication error ended the loop), and a thrown
\* invocation never returns a value; and every invocation ends.
C38_WithRetryTerminates ==
    /\ [](attempt <= MAX_RETRIES)
    /\ [][/\ (retryOutcome' = "returned" /\ retryOutcome # "returned")
              => phase = "wait" /\ attempt' = attempt /\ lastError' = lastError
          /\ retryOutcome \in {"returned", "thrown"}
              => \/ retryOutcome' = retryOutcome /\ attempt' = attempt /\ phase' = "none"
                 \/ retryOutcome' = "pending" /\ attempt' = 1
          /\ (retryOutcome' = "thrown" /\ retryOutcome # "thrown")
              => /\ phase = "wait"
                 /\ IsSome(lastError')
                 /\ lastError' = Some("timeout") <=> abandoned' = abandoned + 1
                 /\ attempt = MAX_RETRIES \/ lastError' = Some("auth")]_vars
    /\ (retryOutcome = "pending") ~> (retryOutcome \in {"returned", "thrown"})

\* An invocation that has thrown after MAX_RETRIES failed attempts, the last
\* of them a timeout.
C38_Witness ==
    /\ retryOutcome = "thrown"
    /\ attempt = MAX_RETRIES
    /\ lastError = Some("timeout")
    /\ phase = "none"

\* An invocation that has returned on its third attempt.
C38_ReturnedOnThird ==
    /\ retryOutcome = "returned"
    /\ attempt = 3
    /\ IsSome(lastError)

\* C39: the two engines compute the same completeness: for a profile and an
\* Evidence list, DiagnosisTracker.getSymptomCompleteness returns the score
\* that AdaptiveDiagnosticSystem.calculateCompleteness returns, whether or
\* not the complaint's name requires a location.
C39_SameCompleteness ==
    (IsSome(analysis) /\ IsSome(trackerCompleteness))
        => Val(trackerCompleteness) = Val(analysis).completeness

\* C40: in the questioning phase the question history holds each question
\* presented exactly once (as many entries as questions presented, the last
\* one being the question on the card), and the history handed to the answer
\* extractor ends with the question that the answer responds to.  (Sessions
\* that were never restarted.)
C40_HistoryHoldsEachQuestionOnce ==
    (restarts = 0 /\ step = "dynamic-questions")
        => /\ Len(questionHistory) = questionCount
           /\ IsSome(currentQuestion)
                  => /\ questionHistory # <<>>
                     /\ questionHistory[Len(questionHistory)] = Val(currentQuestion).question
           /\ (flowKind = "turn" /\ questionAnswers # <<>>)
                  => /\ historySnapshot # <<>>
                     /\ historySnapshot[Len(historySnapshot)]
                            = questionAnswers[Len(questionAnswers)].question

====
